---- MODULE Spec2Model ----
(***************************************************************************)
(* gpu-usage-waybar: the format-string engine.                             *)
(*                                                                         *)
(* A template ("GPU: {gpu_utilization}%") is parsed once into a list of    *)
(* chunks (State::try_from_format), and the chunk list is rendered into a  *)
(* reused buffer against a GpuStatusData snapshot on every tick            *)
(* (State::assemble, GpuStatusData::write_field).                          *)
(*                                                                         *)
(* Text is a TLA+ string; a character is a string of length 1.  Byte       *)
(* offsets of the Rust code (0-based) are kept 0-based in the operators    *)
(* that model code working on offsets.                                     *)
(***************************************************************************)
EXTENDS Integers, Sequences, FiniteSets, TLC

VARIABLES
    format,     \* the template text handed to State::try_from_format
    chunks,     \* State.chunks
    error,      \* the UnitParseError try_from_format returned, or NoError
    buffer,     \* State.buffer / the buffer handed to write_field
    data,       \* the GpuStatusData snapshot
    arg,        \* the Field handed to write_field (direct calls only)
    prior,      \* the buffer as it was when write_field was entered
    pc,         \* position of the program
    trim_index, \* the scan_end_index handed to trim_trailing_zeros (direct calls)
    handle,     \* the metrics source: the readings it returns now
    config,     \* ConfigFile: text.format and tooltip.format
    args,       \* Args: --text-format and --tooltip-format
    stdout,     \* the lines written to standard output
    text_state, \* main's State of the text template
    tooltip_state,  \* main's State of the tooltip template
    clock,      \* the time: milliseconds slept by main, Instant::now() of a sample
    clients,    \* ClientManager.clients
    current_tick,   \* ClientManager.current_tick
    procs,      \* the processes the last update was handed
    has_running_procs,  \* NvidiaGpuStatus.has_running_procs
    dropped,    \* the ids of the clients ClientManager::update has removed so far
    u8_result   \* the last IntelGpuStatus::get_u8_field since the update: the
                \* field asked for and what was returned

vars == <<format, chunks, error, buffer, data, arg, prior, pc, trim_index,
          handle, config, args, stdout, text_state, tooltip_state, clock,
          clients, current_tick, procs, has_running_procs, dropped, u8_result>>

\* The variables of the DRM client tracking of the backends.
drm == <<clients, current_tick, procs, has_running_procs, dropped, u8_result>>

\* The variables that only the direct calls and the startup of main use.
others == <<trim_index, handle, config, args, stdout, text_state, tooltip_state,
            clock, drm>>

(***************************************************************************)
(* Bounds of the model.                                                    *)
(***************************************************************************)
\* A template is the concatenation of at most MaxSegs pieces of a palette.
MaxSegs == 3
\* Quantities (temperature, power, information) range over 0 .. MaxQ
\* quarters of their unit, plus a few larger readings.
MaxQ == 8
\* A precision handed to write_field is at most MaxPrec.
MaxPrec == 2
\* A buffer handed to trim_trailing_zeros has at most MaxBuf characters.
MaxBuf == 5

(***************************************************************************)
(* Option and Result.                                                      *)
(***************************************************************************)
None == <<>>
Some(x) == <<x>>
IsSome(o) == o # <<>>
Unwrap(o) == o[1]

Ok(v) == [ok |-> TRUE, val |-> v]
Err(e) == [ok |-> FALSE, err |-> e]

(***************************************************************************)
(* Characters.                                                             *)
(***************************************************************************)
\* The character at 1-based position i of s; "" past the end.
CharAt(s, i) == IF 1 <= i /\ i <= Len(s) THEN SubSeq(s, i, i) ELSE ""

Digits == {"0", "1", "2", "3", "4", "5", "6", "7", "8", "9"}

Letters ==
    {"a", "b", "c", "d", "e", "f", "g", "h", "i", "j", "k", "l", "m",
     "n", "o", "p", "q", "r", "s", "t", "u", "v", "w", "x", "y", "z",
     "A", "B", "C", "D", "E", "F", "G", "H", "I", "J", "K", "L", "M",
     "N", "O", "P", "Q", "R", "S", "T", "U", "V", "W", "X", "Y", "Z"}

\* The regex class \w (on the ASCII text of the model).
IsWordChar(c) == c \in Letters \cup Digits \cup {"_"}

\* The regex class \d.
IsDigitChar(c) == c \in Digits

\* 1-based position just past the longest run of \w starting at i.
RECURSIVE WordEnd(_, _)
WordEnd(s, i) == IF IsWordChar(CharAt(s, i)) THEN WordEnd(s, i + 1) ELSE i

\* 1-based position just past the longest run of \d starting at i.
RECURSIVE DigitEnd(_, _)
DigitEnd(s, i) == IF IsDigitChar(CharAt(s, i)) THEN DigitEnd(s, i + 1) ELSE i

(***************************************************************************)
(* The placeholder pattern \{(\w+)(?::(\w+)(?:\.(\d+))?)?\} and the        *)
(* captures FormatSegments::from_caps takes from a match.                  *)
(***************************************************************************)
NoMatch == [found |-> FALSE]

\* A match occupying positions start .. end-1 (1-based) of the text.
Match(start, end, field, unit, precision) ==
    [found |-> TRUE, start |-> start, end |-> end,
     seg |-> [field |-> field, unit |-> unit, precision |-> precision]]

\* The match of the pattern that starts at position i, if there is one.
\* Every repetition of the pattern is followed by a character outside its
\* class, so only the longest run can lead to a match.
MatchAt(s, i) ==
    IF CharAt(s, i) # "{" THEN NoMatch
    ELSE LET j == WordEnd(s, i + 1) IN
         IF j = i + 1 THEN NoMatch
         ELSE IF CharAt(s, j) = "}"
              THEN Match(i, j + 1, SubSeq(s, i + 1, j - 1), None, None)
         ELSE IF CharAt(s, j) # ":" THEN NoMatch
         ELSE LET k == WordEnd(s, j + 1) IN
              IF k = j + 1 THEN NoMatch
              ELSE IF CharAt(s, k) = "}"
                   THEN Match(i, k + 1, SubSeq(s, i + 1, j - 1),
                              Some(SubSeq(s, j + 1, k - 1)), None)
              ELSE IF CharAt(s, k) # "." THEN NoMatch
              ELSE LET l == DigitEnd(s, k + 1) IN
                   IF l = k + 1 \/ CharAt(s, l) # "}" THEN NoMatch
                   ELSE Match(i, l + 1, SubSeq(s, i + 1, j - 1),
                              Some(SubSeq(s, j + 1, k - 1)),
                              Some(SubSeq(s, k + 1, l - 1)))

\* Regex::captures_iter: the leftmost match starting at or after position i.
RECURSIVE NextMatch(_, _)
NextMatch(s, i) ==
    IF i > Len(s) THEN NoMatch
    ELSE LET m == MatchAt(s, i) IN
         IF m.found THEN m ELSE NextMatch(s, i + 1)

\* All matches of the pattern in s from position i on, left to right,
\* without overlap.
RECURSIVE MatchesFrom(_, _)
MatchesFrom(s, i) ==
    LET m == NextMatch(s, i) IN
    IF m.found THEN <<m>> \o MatchesFrom(s, m.end) ELSE <<>>

(***************************************************************************)
(* Units (formatter/units.rs).  strum's FromStr accepts the variant names  *)
(* of MemUnit as written, "c"/"f"/"k" in either case for TemperatureUnit,  *)
(* and "w"/"kw" for PowerUnit.                                             *)
(***************************************************************************)
MemUnit ==
    {"KiB", "MiB", "GiB", "KB", "MB", "GB", "Kib", "Mib", "Gib", "Kb", "Mb", "Gb"}

TemperatureUnit == {"Celsius", "Fahrenheit", "Kelvin"}

PowerUnit == {"Watt", "KiloWatt"}

MemUnitFromStr(u) == IF u \in MemUnit THEN Ok(u) ELSE Err("VariantNotFound")

TemperatureUnitFromStr(u) ==
    IF u \in {"c", "C"} THEN Ok("Celsius")
    ELSE IF u \in {"f", "F"} THEN Ok("Fahrenheit")
    ELSE IF u \in {"k", "K"} THEN Ok("Kelvin")
    ELSE Err("VariantNotFound")

\* PowerUnitFromStr that knows the units in capitals only.
PowerUnitFromStrCapitals(u) ==
    IF u = "W" THEN Ok("Watt")
    ELSE IF u = "KW" THEN Ok("KiloWatt")
    ELSE Err("VariantNotFound")

PowerUnitFromStr(u) ==
    IF u = "w" THEN Ok("Watt")
    ELSE IF u = "kw" THEN Ok("KiloWatt")
    ELSE Err("VariantNotFound")

\* UnitFromStr with one parser shared by the three quantities.
UnitFromStrAnyQuantity(quantity, u) ==
    IF MemUnitFromStr(u).ok THEN MemUnitFromStr(u)
    ELSE IF TemperatureUnitFromStr(u).ok THEN TemperatureUnitFromStr(u)
    ELSE PowerUnitFromStr(u)

\* <$unit_type>::from_str of the quantity named by a UnitParseError variant.
UnitFromStr(quantity, u) ==
    CASE quantity = "Memory" -> MemUnitFromStr(u)
      [] quantity = "Temperature" -> TemperatureUnitFromStr(u)
      [] quantity = "Power" -> PowerUnitFromStr(u)

(***************************************************************************)
(* The field vocabulary (gpu_status/fields.rs).                            *)
(***************************************************************************)
U8Field ==
    {"gpu_utilization", "mem_rw", "decoder_utilization", "encoder_utilization",
     "fan_speed"}

MemField == {"mem_used", "mem_total", "tx", "rx"}

\* Field
FieldU8(f) == [kind |-> "U8", field |-> f]
FieldMem(f, u, p) == [kind |-> "Mem", field |-> f, unit |-> u, precision |-> p]
FieldTemperature(u, p) == [kind |-> "Temperature", unit |-> u, precision |-> p]
FieldPower(u, p) == [kind |-> "Power", unit |-> u, precision |-> p]
FieldPState == [kind |-> "PState"]
FieldPLevel == [kind |-> "PLevel"]
FieldMemUtilization == [kind |-> "MemUtilization"]
FieldUnknown == [kind |-> "Unknown"]

\* UnitParseError
NoUnit == [tag |-> "NoUnit"]
PrecisionError(text) == [tag |-> "Precision", text |-> text]
UnitError(quantity, text) == [tag |-> quantity, text |-> text]

(***************************************************************************)
(* str::parse::<usize> on the precision text.                              *)
(***************************************************************************)
DigitValue(c) ==
    CASE c = "0" -> 0 [] c = "1" -> 1 [] c = "2" -> 2 [] c = "3" -> 3
      [] c = "4" -> 4 [] c = "5" -> 5 [] c = "6" -> 6 [] c = "7" -> 7
      [] c = "8" -> 8 [] c = "9" -> 9

\* usize::MAX on a 64-bit target, as text.
UsizeMaxText == "18446744073709551615"

RECURSIVE StripZeros(_)
StripZeros(p) ==
    IF Len(p) > 1 /\ CharAt(p, 1) = "0" THEN StripZeros(SubSeq(p, 2, Len(p))) ELSE p

\* a <= b for digit strings of the same length.
RECURSIVE DigitsLeq(_, _)
DigitsLeq(a, b) ==
    IF Len(a) = 0 THEN TRUE
    ELSE LET x == DigitValue(CharAt(a, 1))
             y == DigitValue(CharAt(b, 1))
         IN IF x # y THEN x < y
            ELSE DigitsLeq(SubSeq(a, 2, Len(a)), SubSeq(b, 2, Len(b)))

RECURSIVE DigitsValue(_)
DigitsValue(p) ==
    IF Len(p) = 0 THEN 0
    ELSE 10 * DigitsValue(SubSeq(p, 1, Len(p) - 1)) + DigitValue(CharAt(p, Len(p)))

\* Fails on empty text, on a character that is no digit and on overflow.
ParseUsize(p) ==
    IF Len(p) = 0 \/ \E i \in 1..Len(p) : ~IsDigitChar(CharAt(p, i))
    THEN Err("ParseIntError")
    ELSE LET q == StripZeros(p) IN
         IF Len(q) > Len(UsizeMaxText)
            \/ (Len(q) = Len(UsizeMaxText) /\ ~DigitsLeq(q, UsizeMaxText))
         THEN Err("ParseIntError")
         ELSE Ok(DigitsValue(q))

(***************************************************************************)
(* Field::from_str / Field::try_from(FormatSegments).                      *)
(***************************************************************************)
\* ParseUnitAndPrecision with a missing unit replaced by a default unit.
ParseUnitAndPrecisionDefaultUnit(seg, quantity) ==
    LET unit_name ==
            IF seg.unit # None THEN Unwrap(seg.unit)
            ELSE CASE quantity = "Memory" -> "MiB"
                   [] quantity = "Temperature" -> "c"
                   [] quantity = "Power" -> "w"
        unit == UnitFromStr(quantity, unit_name)
    IN IF ~unit.ok THEN Err(UnitError(quantity, unit_name))
       ELSE IF seg.precision = None
            THEN Ok([unit |-> unit.val, precision |-> None])
       ELSE LET p == Unwrap(seg.precision)
                n == ParseUsize(p)
            IN IF ~n.ok THEN Err(PrecisionError(p))
               ELSE Ok([unit |-> unit.val, precision |-> Some(n.val)])

\* parse_unit_and_precision!($unit_type, $err_variant)
ParseUnitAndPrecision(seg, quantity) ==
    IF seg.unit = None THEN Err(NoUnit)
    ELSE LET unit_name == Unwrap(seg.unit)
             unit == UnitFromStr(quantity, unit_name)
         IN IF ~unit.ok THEN Err(UnitError(quantity, unit_name))
            ELSE IF seg.precision = None
                 THEN Ok([unit |-> unit.val, precision |-> None])
            ELSE LET p == Unwrap(seg.precision)
                     n == ParseUsize(p)
                 IN IF ~n.ok THEN Err(PrecisionError(p))
                    ELSE Ok([unit |-> unit.val, precision |-> Some(n.val)])

\* OtherField with a suffix on an unrecognised name taken for an error.
OtherFieldStrict(seg) ==
    IF seg.field \in MemField
    THEN LET up == ParseUnitAndPrecision(seg, "Memory") IN
         IF up.ok THEN Ok(FieldMem(seg.field, up.val.unit, up.val.precision))
         ELSE up
    ELSE IF seg.field \in U8Field THEN Ok(FieldU8(seg.field))
    ELSE IF seg.unit # None THEN Err(UnitError("Memory", Unwrap(seg.unit)))
    ELSE Ok(FieldUnknown)

\* The arm `s => ...` of the match: a memory field, a u8 field or Unknown.
OtherField(seg) ==
    IF seg.field \in MemField
    THEN LET up == ParseUnitAndPrecision(seg, "Memory") IN
         IF up.ok THEN Ok(FieldMem(seg.field, up.val.unit, up.val.precision))
         ELSE up
    ELSE IF seg.field \in U8Field THEN Ok(FieldU8(seg.field))
    ELSE Ok(FieldUnknown)

\* FieldTryFrom that refuses a suffix on a field that takes none.
FieldTryFromSuffixChecked(seg) ==
    IF seg.field \in {"p_level", "p_state", "mem_utilization"} \cup U8Field
       /\ seg.unit # None
    THEN Err(UnitError("Memory", Unwrap(seg.unit)))
    ELSE CASE seg.field = "p_level" -> Ok(FieldPLevel)
           [] seg.field = "p_state" -> Ok(FieldPState)
           [] seg.field = "mem_utilization" -> Ok(FieldMemUtilization)
           [] seg.field = "power" ->
                 LET up == ParseUnitAndPrecision(seg, "Power") IN
                 IF up.ok THEN Ok(FieldPower(up.val.unit, up.val.precision))
                 ELSE up
           [] seg.field = "temperature" ->
                 LET up == ParseUnitAndPrecision(seg, "Temperature") IN
                 IF up.ok
                 THEN Ok(FieldTemperature(up.val.unit, up.val.precision))
                 ELSE up
           [] OTHER -> OtherField(seg)

FieldTryFrom(seg) ==
    CASE seg.field = "p_level" -> Ok(FieldPLevel)
      [] seg.field = "p_state" -> Ok(FieldPState)
      [] seg.field = "mem_utilization" -> Ok(FieldMemUtilization)
      [] seg.field = "power" ->
            LET up == ParseUnitAndPrecision(seg, "Power") IN
            IF up.ok THEN Ok(FieldPower(up.val.unit, up.val.precision)) ELSE up
      [] seg.field = "temperature" ->
            LET up == ParseUnitAndPrecision(seg, "Temperature") IN
            IF up.ok THEN Ok(FieldTemperature(up.val.unit, up.val.precision)) ELSE up
      [] OTHER -> OtherField(seg)

(***************************************************************************)
(* Chunk and parse (formatter/mod.rs).                                     *)
(***************************************************************************)
Static(s) == [kind |-> "Static", text |-> s]
Variable(f) == [kind |-> "Variable", field |-> f]

\* PushStatic slicing the template from its start.
PushStaticFromStart(s, last_end, m, acc) ==
    IF m.start > last_end
    THEN Append(acc, Static(SubSeq(s, 1, m.start - 1)))
    ELSE acc

\* The static text between the previous match and the match m, pushed when
\* it is not empty.
PushStatic(s, last_end, m, acc) ==
    IF m.start > last_end
    THEN Append(acc, Static(SubSeq(s, last_end, m.start - 1)))
    ELSE acc

\* ParseLoop with a failing placeholder turned into Unknown.
RECURSIVE ParseLoopLenient(_, _, _)
ParseLoopLenient(s, last_end, acc) ==
    LET m == NextMatch(s, last_end) IN
    IF ~m.found
    THEN Ok(Append(acc, Static(SubSeq(s, last_end, Len(s)))))
    ELSE LET field == FieldTryFrom(m.seg)
             f == IF field.ok THEN field.val ELSE FieldUnknown
         IN ParseLoopLenient(s, m.end,
                             Append(PushStatic(s, last_end, m, acc), Variable(f)))

\* The loop of parse over captures_iter: last_end is the 1-based position
\* that follows the previous match, acc the chunks pushed so far.
RECURSIVE ParseLoop(_, _, _)
ParseLoop(s, last_end, acc) ==
    LET m == NextMatch(s, last_end) IN
    IF ~m.found
    THEN \* push the rest static
         Ok(Append(acc, Static(SubSeq(s, last_end, Len(s)))))
    ELSE LET field == FieldTryFrom(m.seg) IN
         IF ~field.ok THEN Err(field.err)
         ELSE ParseLoop(s, m.end,
                        Append(PushStatic(s, last_end, m, acc), Variable(field.val)))

parse(s) == ParseLoop(s, 1, <<>>)

(***************************************************************************)
(* GpuStatusData (gpu_status/mod.rs).  A u8 field holds a number; a        *)
(* quantity (Information, Temperature, Power) holds an f32, modelled as a  *)
(* whole number of quarters: every such value is an exact f32, its decimal *)
(* expansion has at most two fractional digits, and ties of the decimal    *)
(* rounding are real ties.                                                 *)
(***************************************************************************)
DefaultData ==
    [has_running_processes |-> FALSE, powered_on |-> FALSE,
     gpu_utilization |-> None, mem_used |-> None, mem_total |-> None,
     mem_rw |-> None, decoder_utilization |-> None,
     encoder_utilization |-> None, temperature |-> None, power |-> None,
     p_state |-> None, p_level |-> None, fan_speed |-> None,
     tx |-> None, rx |-> None]

\* n / d rounded to the nearest whole number, ties away from zero (n, d >= 0).
RoundDiv(n, d) == (2 * n + d) \div (2 * d)

\* Unit::compute: the quantity expressed in the unit, in quarters.  The
\* model keeps information in quarters of a MiB, temperature in quarters of
\* a degree Celsius and power in quarters of a watt; a result that is not a
\* whole number of quarters is rounded to the nearest one.
Compute(unit, v) ==
    CASE unit = "MiB" -> v
      [] unit = "KiB" -> 1024 * v
      [] unit = "GiB" -> RoundDiv(v, 1024)
      [] unit = "Mib" -> 8 * v
      [] unit = "Kib" -> 8192 * v
      [] unit = "Gib" -> RoundDiv(v, 128)
      [] unit = "MB" -> RoundDiv(v * 1048576, 1000000)
      [] unit = "KB" -> RoundDiv(v * 1048576, 1000)
      [] unit = "GB" -> RoundDiv(v * 1048576, 1000000000)
      [] unit = "Mb" -> RoundDiv(v * 1048576, 125000)
      [] unit = "Kb" -> RoundDiv(v * 1048576, 125)
      [] unit = "Gb" -> RoundDiv(v * 1048576, 125000000)
      [] unit = "Celsius" -> v
      [] unit = "Kelvin" -> v + 1093
      [] unit = "Fahrenheit" -> RoundDiv(9 * v, 5) + 128
      [] unit = "Watt" -> v
      [] unit = "KiloWatt" -> RoundDiv(v, 1000)

(***************************************************************************)
(* Display of numbers (core::fmt).                                         *)
(***************************************************************************)
DigitChar(d) == SubSeq("0123456789", d + 1, d + 1)

\* Display of an unsigned integer.
RECURSIVE NatToStr(_)
NatToStr(n) == IF n < 10 THEN DigitChar(n) ELSE NatToStr(n \div 10) \o DigitChar(n % 10)

RECURSIVE Pow10(_)
Pow10(p) == IF p = 0 THEN 1 ELSE 10 * Pow10(p - 1)

\* The p low decimal digits of n, zero-padded on the left.
RECURSIVE FracDigits(_, _)
FracDigits(n, p) ==
    IF p = 0 THEN "" ELSE FracDigits(n \div 10, p - 1) \o DigitChar(n % 10)

\* write!(buffer, "{v}") of the f32 q/4: the shortest text that reads back
\* as the same f32, with no fractional part when the value is whole.
FormatDisplay(q) ==
    NatToStr(q \div 4) \o
        (CASE q % 4 = 0 -> "" [] q % 4 = 1 -> ".25" [] q % 4 = 2 -> ".5"
           [] q % 4 = 3 -> ".75")

\* write!(buffer, "{:.*}", p, v) of the f32 q/4: the exact value rounded to
\* p fractional digits, ties to even; no decimal point when p = 0.
FormatPrecision(q, p) ==
    LET num == q * Pow10(p)
        low == num \div 4
        rem == num % 4
        n == IF rem < 2 THEN low
             ELSE IF rem > 2 THEN low + 1
             ELSE IF low % 2 = 0 THEN low ELSE low + 1
    IN IF p = 0 THEN NatToStr(n)
       ELSE NatToStr(n \div Pow10(p)) \o "." \o FracDigits(n % Pow10(p), p)

(***************************************************************************)
(* trim_trailing_zeros (formatter/mod.rs).  Offsets are 0-based, as in the *)
(* code: the byte at offset k is CharAt(buf, k + 1).                       *)
(***************************************************************************)
\* buf[..end].rfind('.'): the greatest offset below end holding a '.', or -1.
RECURSIVE RFindDot(_, _)
RFindDot(buf, end) ==
    IF end = 0 THEN -1
    ELSE IF CharAt(buf, end) = "." THEN end - 1
    ELSE RFindDot(buf, end - 1)

\* TrimLoop that gives up after one '0'.
TrimLoopOnce(buf, end, last_dot_pos) ==
    IF end > last_dot_pos + 1 /\ CharAt(buf, end) = "0" THEN end - 1 ELSE end

\* The while loop: end moves left over '0' down to last_dot_pos + 1.
RECURSIVE TrimLoop(_, _, _)
TrimLoop(buf, end, last_dot_pos) ==
    IF end > last_dot_pos + 1 /\ CharAt(buf, end) = "0"
    THEN TrimLoop(buf, end - 1, last_dot_pos)
    ELSE end

\* TrimTrailingZeros that does not compare the last '.' with scan_end_index.
TrimTrailingZerosUnscoped(buf, scan_end_index) ==
    LET last_dot_pos == RFindDot(buf, Len(buf)) IN
    IF last_dot_pos = -1 THEN buf
    ELSE LET end == TrimLoop(buf, Len(buf), last_dot_pos)
             cut == IF end = last_dot_pos + 1 THEN end - 1 ELSE end
         IN SubSeq(buf, 1, cut)

TrimTrailingZeros(buf, scan_end_index) ==
    LET last_dot_pos == RFindDot(buf, Len(buf)) IN
    IF last_dot_pos = -1 THEN buf
    ELSE IF last_dot_pos <= scan_end_index THEN buf
    ELSE LET end == TrimLoop(buf, Len(buf), last_dot_pos)
             cut == IF end = last_dot_pos + 1 THEN end - 1 ELSE end
         IN SubSeq(buf, 1, cut)

(***************************************************************************)
(* GpuStatusData: field access and write_field.                            *)
(***************************************************************************)
FieldIsNone == "FieldIsNone"

\* compute_mem_usage that takes a missing mem_total for zero.
ComputeMemUsageDefaultTotal(d) ==
    IF IsSome(d.mem_used)
    THEN Some(IF Unwrap(d.mem_used) = 0 THEN 0 ELSE 255)
    ELSE None

\* compute_mem_usage: (mem_used / mem_total * 100.0).round() as u8; the
\* cast saturates and turns NaN into 0.
ComputeMemUsage(d) ==
    IF IsSome(d.mem_used) /\ IsSome(d.mem_total)
    THEN LET used == Unwrap(d.mem_used)
             total == Unwrap(d.mem_total)
         IN IF total = 0 THEN Some(IF used = 0 THEN 0 ELSE 255)
            ELSE LET pct == RoundDiv(100 * used, total)
                 IN Some(IF pct > 255 THEN 255 ELSE pct)
    ELSE None

\* get_mem_field
GetMemField(d, field) ==
    CASE field = "mem_used" -> d.mem_used
      [] field = "mem_total" -> d.mem_total
      [] field = "tx" -> d.tx
      [] field = "rx" -> d.rx

\* get_simple_field_display followed by Display: the text of a field that
\* takes no unit, None when the snapshot has no value for it.
GetSimpleFieldDisplay(d, field) ==
    CASE field.kind = "U8" ->
            IF IsSome(d[field.field]) THEN Some(NatToStr(Unwrap(d[field.field])))
            ELSE None
      [] field.kind = "MemUtilization" ->
            LET usage == ComputeMemUsage(d) IN
            IF IsSome(usage) THEN Some(NatToStr(Unwrap(usage))) ELSE None
      [] field.kind = "PState" -> d.p_state
      [] field.kind = "PLevel" -> d.p_level

\* write_simple_field
WriteSimpleField(d, field, buf) ==
    LET field_display == GetSimpleFieldDisplay(d, field) IN
    IF IsSome(field_display) THEN Ok(buf \o Unwrap(field_display))
    ELSE Err(FieldIsNone)

\* The macro u! of write_field.
WriteUnitField(val, unit, precision, buf) ==
    IF val = None THEN Err(FieldIsNone)
    ELSE LET v == Compute(unit, Unwrap(val)) IN
         IF IsSome(precision)
         THEN Ok(buf \o FormatPrecision(v, Unwrap(precision)))
         ELSE Ok(buf \o FormatDisplay(v))

\* write_field: Ok(the buffer after the call) or Err(FieldIsNone), in which
\* case nothing was written.
WriteField(d, field, buf) ==
    LET scan_end_index == Len(buf)
        written ==
            CASE field.kind \in {"U8", "MemUtilization", "PState", "PLevel"} ->
                    WriteSimpleField(d, field, buf)
              [] field.kind = "Mem" ->
                    WriteUnitField(GetMemField(d, field.field), field.unit,
                                   field.precision, buf)
              [] field.kind = "Temperature" ->
                    WriteUnitField(d.temperature, field.unit, field.precision, buf)
              [] field.kind = "Power" ->
                    WriteUnitField(d.power, field.unit, field.precision, buf)
              [] field.kind = "Unknown" -> Ok(buf \o "N/A")
    IN IF ~written.ok THEN written
       ELSE Ok(TrimTrailingZeros(written.val, scan_end_index))

\* is_field_unavailable
IsFieldUnavailable(d, field) ==
    CASE field.kind = "Unknown" -> TRUE
      [] field.kind \in {"U8", "MemUtilization", "PState", "PLevel"} ->
            GetSimpleFieldDisplay(d, field) = None
      [] field.kind = "Mem" -> GetMemField(d, field.field) = None
      [] field.kind = "Temperature" -> d.temperature = None
      [] field.kind = "Power" -> d.power = None

(***************************************************************************)
(* State::assemble (formatter/mod.rs).                                     *)
(***************************************************************************)
\* String::clear
Clear(buf) == ""

\* AssembleChunk with a Static chunk assigned to the buffer.
AssembleChunkOverwrite(chunk, d, buf) ==
    IF chunk.kind = "Static" THEN chunk.text
    ELSE LET r == WriteField(d, chunk.field, buf) IN
         IF ~r.ok /\ r.err = FieldIsNone THEN buf \o "N/A" ELSE r.val

\* AssembleChunk with nothing written for a field that is None.
AssembleChunkSkipNone(chunk, d, buf) ==
    IF chunk.kind = "Static" THEN buf \o chunk.text
    ELSE LET r == WriteField(d, chunk.field, buf) IN
         IF ~r.ok /\ r.err = FieldIsNone THEN buf ELSE r.val

\* The body of the loop of assemble for one chunk.
AssembleChunk(chunk, d, buf) ==
    IF chunk.kind = "Static" THEN buf \o chunk.text
    ELSE LET r == WriteField(d, chunk.field, buf) IN
         IF ~r.ok /\ r.err = FieldIsNone THEN buf \o "N/A" ELSE r.val

RECURSIVE AssembleLoop(_, _, _, _)
AssembleLoop(cs, d, buf, i) ==
    IF i > Len(cs) THEN buf
    ELSE AssembleLoop(cs, d, AssembleChunk(cs[i], d, buf), i + 1)

\* Assemble that appends to what the buffer holds.
AssembleAppending(cs, d, buf) == AssembleLoop(cs, d, buf, 1)

Assemble(cs, d, buf) == AssembleLoop(cs, d, Clear(buf), 1)

(***************************************************************************)
(* Inputs.                                                                 *)
(***************************************************************************)
RECURSIVE ConcatAll(_)
ConcatAll(pieces) ==
    IF Len(pieces) = 0 THEN "" ELSE Head(pieces) \o ConcatAll(Tail(pieces))

\* The templates made of at most MaxSegs pieces of a palette.
Templates(palette) ==
    {ConcatAll(pieces) : pieces \in UNION {[1..k -> palette] : k \in 0..MaxSegs}}

\* Pieces of templates for the parser: static text, a stray brace, and
\* placeholders that convert, are unknown, lack their unit or carry the unit
\* of another quantity.
ParsePalette ==
    {"GPU: ", "%\n", "{", "{p_state}", "{unknown_xyz}", "{temperature}",
     "{power:c}"}

\* Names and suffixes of placeholders: every kind of field, and every way a
\* suffix is right or wrong.
PlaceholderNames ==
    {"temperature", "power", "mem_used", "mem_total", "tx", "rx", "p_state",
     "p_level", "mem_utilization", "gpu_utilization", "unknown_xyz"}

PlaceholderSuffixes ==
    {"", ":c", ":w", ":MiB", ":kib", ":K.2", ":MiB.0", ":c.x", ":c.",
     ":w.99999999999999999999"}

PlaceholderTexts ==
    {"{" \o name \o suffix \o "}" :
        name \in PlaceholderNames, suffix \in PlaceholderSuffixes}

\* text put into the sequence of pieces after its first j pieces (at the
\* end when there are fewer), concatenated.
InsertAt(pieces, j, text) ==
    LET cut == IF j < Len(pieces) THEN j ELSE Len(pieces) IN
    ConcatAll(SubSeq(pieces, 1, cut)) \o text
        \o ConcatAll(SubSeq(pieces, cut + 1, Len(pieces)))

\* The templates for the parser: at most one placeholder text, put anywhere
\* among at most MaxSegs - 1 pieces of ParsePalette.
ParseTemplates ==
    {InsertAt(pieces, j, text) :
        text \in PlaceholderTexts \cup {""},
        pieces \in UNION {[1..k -> ParsePalette] : k \in 0..(MaxSegs - 1)},
        j \in 0..(MaxSegs - 1)}

\* Pieces of the templates that are rendered.
RenderPalette ==
    {"GPU: ", "%", "v1.0 ", "{gpu_utilization}", "{temperature:c.1}",
     "{mem_utilization}", "{unknown_xyz}"}

\* The readings a quantity takes, in quarters: 0 .. MaxQ/4, and 10, 35.5
\* and 100.
QValues == (0..MaxQ) \cup {40, 142, 400}

\* The snapshots the rendered templates meet.
Snapshots ==
    {[DefaultData EXCEPT !.gpu_utilization = g, !.temperature = t,
                         !.mem_used = u, !.mem_total = m] :
        g \in {None, Some(42), Some(100)}, t \in {None, Some(142)},
        u \in {None, Some(2)}, m \in {None, Some(0), Some(8)}}

NoError == [tag |-> "None"]

(***************************************************************************)
(* The metrics source and the templates generated from what it exposes     *)
(* (config/structs.rs).  The source is described by the readings it        *)
(* returns: a field it does not support, or cannot read, is None.          *)
(***************************************************************************)
\* GpuHandle::is_field_available
IsFieldAvailable(h, field) == ~IsFieldUnavailable(h, field)

\* DEFAULT_FORMAT of TooltipConfig::assemble_availables.  The degree sign of
\* the TEMP line, which is no ASCII character, is written '*' here.
DEFAULT_FORMAT ==
    "GPU: {gpu_utilization}%\n"
    \o "RENDER: {render_utilization}%\n"
    \o "VIDEO: {video_utilization}%\n"
    \o "MEM USED: {mem_used:MiB.0}/{mem_total:MiB} MiB ({mem_utilization}%)\n"
    \o "MEM R/W: {mem_rw}%\n"
    \o "DEC: {decoder_utilization}%\n"
    \o "ENC: {encoder_utilization}%\n"
    \o "TEMP: {temperature:c}*C\n"
    \o "POWER: {power:w}W\n"
    \o "PSTATE: {p_state}\n"
    \o "PLEVEL: {p_level}\n"
    \o "FAN SPEED: {fan_speed}%\n"
    \o "TX: {tx:MiB.3} MiB/s\n"
    \o "RX: {rx:MiB.3} MiB/s"

\* The offset of the first '\n' of s at or after offset i, 0 when none.
NextNewline(s, i) ==
    LET js == {j \in i..Len(s) : CharAt(s, j) = "\n"} IN
    IF js = {} THEN 0 ELSE CHOOSE j \in js : \A k \in js : j <= k

\* str::split_inclusive('\n'): the lines of s from offset start on, each
\* with the '\n' that ends it.
RECURSIVE SplitInclusiveFrom(_, _)
SplitInclusiveFrom(s, start) ==
    IF start > Len(s) THEN <<>>
    ELSE LET nl == NextNewline(s, start) IN
         IF nl = 0 THEN <<SubSeq(s, start, Len(s))>>
         ELSE <<SubSeq(s, start, nl)>> \o SplitInclusiveFrom(s, nl + 1)

SplitInclusive(s) == SplitInclusiveFrom(s, 1)

\* The closure handed to all(): the placeholder converts (unwrap) and its
\* field is available.
PlaceholderAvailable(h, m) ==
    IsFieldAvailable(h, FieldTryFrom(m.seg).val)

\* AllAvailable that is satisfied by one available placeholder.
AnyAvailable(h, line) ==
    LET ms == MatchesFrom(line, 1) IN
    Len(ms) = 0 \/ \E k \in 1..Len(ms) : PlaceholderAvailable(h, ms[k])

\* re.captures_iter(line).all(..)
AllAvailable(h, line) ==
    LET ms == MatchesFrom(line, 1) IN
    \A k \in 1..Len(ms) : PlaceholderAvailable(h, ms[k])

\* RetainLines with each kept line pushed without its line terminator.
RECURSIVE RetainLinesChomped(_, _, _)
RetainLinesChomped(h, lines, i) ==
    IF i > Len(lines) THEN ""
    ELSE (IF AllAvailable(h, lines[i])
          THEN (IF CharAt(lines[i], Len(lines[i])) = "\n"
                THEN SubSeq(lines[i], 1, Len(lines[i]) - 1) ELSE lines[i])
          ELSE "")
         \o RetainLinesChomped(h, lines, i + 1)

\* The loop over the lines: result.push_str(line) for the lines whose
\* placeholders are all available.
RECURSIVE RetainLines(_, _, _)
RetainLines(h, lines, i) ==
    IF i > Len(lines) THEN ""
    ELSE (IF AllAvailable(h, lines[i]) THEN lines[i] ELSE "")
         \o RetainLines(h, lines, i + 1)

\* TooltipConfig::assemble_availables: the format it sets.
TooltipAssembleAvailables(h) == RetainLines(h, SplitInclusive(DEFAULT_FORMAT), 1)

\* TextAssembleAvailables that appends the memory part when mem_used is
\* available.
TextAssembleAvailablesUsedOnly(h) ==
    "{gpu_utilization}%"
    \o (IF IsFieldAvailable(h, FieldMem("mem_used", "MiB", None))
        THEN "|{mem_utilization}%" ELSE "")

\* TextConfig::assemble_availables: the format it sets.
TextAssembleAvailables(h) ==
    "{gpu_utilization}%"
    \o (IF IsFieldAvailable(h, FieldMemUtilization)
        THEN "|{mem_utilization}%" ELSE "")

\* What a source exposes: every field is readable or not.
Sources ==
    {[has_running_processes |-> TRUE, powered_on |-> TRUE,
      gpu_utilization |-> g, mem_used |-> mu, mem_total |-> mt,
      mem_rw |-> rw, decoder_utilization |-> de, encoder_utilization |-> en,
      temperature |-> te, power |-> po, p_state |-> ps, p_level |-> pl,
      fan_speed |-> fa, tx |-> tx, rx |-> rx] :
        g \in {None, Some(42)}, mu \in {None, Some(2)}, mt \in {None, Some(8)},
        rw \in {None, Some(7)}, de \in {None, Some(0)}, en \in {None, Some(1)},
        te \in {None, Some(142)}, po \in {None, Some(40)},
        ps \in {None, Some("P0")}, pl \in {None, Some("auto")},
        fa \in {None, Some(30)}, tx \in {None, Some(20)}, rx \in {None, Some(24)}}

\* The ConfigFile and the Args before anything is set.
NoConfig == [text_format |-> None, tooltip_format |-> None, interval |-> None]

\* The State of a template not parsed yet.
NoState == [chunks |-> <<>>, buffer |-> ""]

\* The variables of main, in the specifications that do not run main.
DrmIdle ==
    /\ clients = <<>>
    /\ current_tick = 0
    /\ procs = <<>>
    /\ has_running_procs = TRUE
    /\ dropped = {}
    /\ u8_result = None

MainIdle ==
    /\ clock = 0
    /\ DrmIdle
    /\ handle = DefaultData
    /\ config = NoConfig
    /\ args = NoConfig
    /\ stdout = <<>>
    /\ text_state = NoState
    /\ tooltip_state = NoState

(***************************************************************************)
(* main (main.rs): the configuration is merged with the arguments, the GPU *)
(* is announced, the tooltip template is pruned when the user set none,    *)
(* both templates are parsed, and every tick writes one record.            *)
(***************************************************************************)
\* The poll loop is followed for MaxTicks ticks.
MaxTicks == 2

\* The longest process list of a scan of the NVIDIA backend.
MaxProcs == 2

\* The number of updates of the Intel backend that are followed.
MaxUpdates == 3

\* ConfigFile::merge_args_into_config
MergeArgsIntoConfig(c, a) ==
    [text_format |->
        IF IsSome(a.text_format) THEN a.text_format ELSE c.text_format,
     tooltip_format |->
        IF IsSome(a.tooltip_format) THEN a.tooltip_format ELSE c.tooltip_format,
     interval |->
        IF IsSome(a.interval) THEN Unwrap(a.interval) ELSE c.interval]

\* Format::is_set of the tooltip format
IsFormatSet(c) == IsSome(c.tooltip_format)

\* RetainLinesWithValues that prunes whatever the user set.
RetainLinesAlways(c, h) ==
    [c EXCEPT !.tooltip_format = Some(TooltipAssembleAvailables(h))]

\* main: if !config.tooltip.is_format_set() { retain_lines_with_values }
RetainLinesWithValues(c, h) ==
    IF ~IsFormatSet(c)
    THEN [c EXCEPT !.tooltip_format = Some(TooltipAssembleAvailables(h))]
    ELSE c

\* State::try_from_format as a value: Ok(State) or Err(UnitParseError)
StateFromChunks(r) ==
    IF r.ok THEN Ok([chunks |-> r.val, buffer |-> ""]) ELSE r

StateTryFromFormat(fmt) == StateFromChunks(parse(fmt))

\* TryFromFormats that goes on with an empty State when a template fails.
StatesOrDefault(t, u) ==
    Ok([text_state |-> IF t.ok THEN t.val ELSE NoState,
        tooltip_state |-> IF u.ok THEN u.val ELSE NoState])

TryFromFormatsOrDefault(c) ==
    StatesOrDefault(StateTryFromFormat(Unwrap(c.text_format)),
                    StateTryFromFormat(Unwrap(c.tooltip_format)))

\* The two results of try_from_format under "?": the first error, else both
\* States.
StatesOrFirstErr(t, u) ==
    IF ~t.ok THEN t
    ELSE IF ~u.ok THEN u
    ELSE Ok([text_state |-> t.val, tooltip_state |-> u.val])

\* main: the two State::try_from_format(..)? in a row
TryFromFormats(c) ==
    StatesOrFirstErr(StateTryFromFormat(Unwrap(c.text_format)),
                     StateTryFromFormat(Unwrap(c.tooltip_format)))

\* get_text / get_tooltip: the State after the call and the text returned;
\* off and idle are the two texts returned without rendering.
\* GetRendered that looks at the running processes before the power state.
GetRenderedIdleFirst(d, state, off, idle) ==
    IF ~d.has_running_processes THEN [state |-> state, text |-> idle]
    ELSE IF ~d.powered_on THEN [state |-> state, text |-> off]
    ELSE LET buf == Assemble(state.chunks, d, state.buffer) IN
         [state |-> [state EXCEPT !.buffer = buf], text |-> buf]

GetRendered(d, state, off, idle) ==
    IF ~d.powered_on THEN [state |-> state, text |-> off]
    ELSE IF ~d.has_running_processes THEN [state |-> state, text |-> idle]
    ELSE LET buf == Assemble(state.chunks, d, state.buffer) IN
         [state |-> [state EXCEPT !.buffer = buf], text |-> buf]

GetText(d, state) == GetRendered(d, state, "Off", "Idle")

GetTooltip(d, state) == GetRendered(d, state, "GPU powered off", "GPU idle")

\* The JSON text of a string: quotes around it, and '"', '\' and the line
\* feed escaped.
RECURSIVE JsonEscape(_, _)
JsonEscape(s, i) ==
    IF i > Len(s) THEN ""
    ELSE LET c == CharAt(s, i) IN
         (IF c = "\"" THEN "\\\""
          ELSE IF c = "\\" THEN "\\\\"
          ELSE IF c = "\n" THEN "\\n"
          ELSE c) \o JsonEscape(s, i + 1)

JsonString(s) == "\"" \o JsonEscape(s, 1) \o "\""

\* sonic_rs::to_string(&OutputFormat {text, tooltip}), and the '\n' of
\* writeln!
RecordLine(text, tooltip) ==
    "{\"text\":" \o JsonString(text) \o ",\"tooltip\":" \o JsonString(tooltip)
        \o "}" \o "\n"

\* print_gpu: what print! and println! put on standard output
PrintGpuLine(gpu_index, model_name, nodes) ==
    "GPU " \o NatToStr(gpu_index) \o ": " \o model_name \o ", Nodes: "
        \o nodes \o "\n"

(***************************************************************************)
(* The program: a template is parsed once, then every tick takes a         *)
(* snapshot and renders the chunks against it.                             *)
(***************************************************************************)
\* State::try_from_format
TryFromFormat ==
    /\ pc = "start"
    /\ LET r == parse(format) IN
       IF r.ok
       THEN chunks' = r.val /\ error' = NoError /\ pc' = "parsed"
       ELSE chunks' = <<>> /\ error' = r.err /\ pc' = "failed"
    /\ buffer' = ""
    /\ UNCHANGED <<format, data, arg, prior, others>>

\* The metrics source refreshes its snapshot.
Update ==
    /\ pc \in {"parsed", "assembled"}
    /\ data' \in Snapshots
    /\ pc' = "snapshot"
    /\ UNCHANGED <<format, chunks, error, buffer, arg, prior, others>>

\* State::assemble
AssembleStep ==
    /\ pc = "snapshot"
    /\ buffer' = Assemble(chunks, data, buffer)
    /\ pc' = "assembled"
    /\ UNCHANGED <<format, chunks, error, data, arg, prior, others>>

Init ==
    /\ format \in Templates(RenderPalette)
    /\ chunks = <<>>
    /\ error = NoError
    /\ buffer = ""
    /\ data = DefaultData
    /\ arg = FieldUnknown
    /\ prior = ""
    /\ pc = "start"
    /\ trim_index = 0
    /\ MainIdle

Next == TryFromFormat \/ Update \/ AssembleStep

Spec == Init /\ [][Next]_vars

(***************************************************************************)
(* The parser alone, on the templates of ParseTemplates.                   *)
(***************************************************************************)
InitParse ==
    /\ format \in ParseTemplates
    /\ chunks = <<>>
    /\ error = NoError
    /\ buffer = ""
    /\ data = DefaultData
    /\ arg = FieldUnknown
    /\ prior = ""
    /\ pc = "start"
    /\ trim_index = 0
    /\ MainIdle

NextParse == TryFromFormat

SpecParse == InitParse /\ [][NextParse]_vars

(***************************************************************************)
(* write_field alone: one call with a Field, on a buffer that already      *)
(* holds text, against a snapshot.                                         *)
(***************************************************************************)
Precisions == {None} \cup {Some(n) : n \in 0..MaxPrec}

\* The Fields handed to write_field.
FieldArgs ==
    {FieldTemperature(u, p) : u \in TemperatureUnit, p \in Precisions}
    \cup {FieldPower(u, p) : u \in PowerUnit, p \in Precisions}
    \cup {FieldMem(f, u, p) :
            f \in {"mem_used", "tx"}, u \in {"MiB", "KiB", "GiB", "MB"},
            p \in Precisions}
    \cup {FieldU8("gpu_utilization"), FieldMemUtilization, FieldPState,
          FieldPLevel, FieldUnknown}

\* The snapshots write_field reads: nothing available, or the same reading
\* for every quantity.
FieldSnapshots ==
    {DefaultData}
    \cup {[DefaultData EXCEPT !.temperature = Some(q), !.power = Some(q),
                              !.mem_used = Some(q), !.mem_total = Some(8),
                              !.gpu_utilization = Some(100),
                              !.p_state = Some("P8")] : q \in QValues}

\* What the buffer holds before the call.
PriorBuffers == {"", "GPU: ", "v1.0 ", "1."}

\* GpuStatusData::write_field
WriteFieldCall ==
    /\ pc = "call"
    /\ prior' = buffer
    /\ LET r == WriteField(data, arg, buffer) IN
       IF r.ok THEN buffer' = r.val /\ pc' = "written"
       ELSE buffer' = buffer /\ pc' = "none"
    /\ UNCHANGED <<format, chunks, error, data, arg, others>>

InitField ==
    /\ format = ""
    /\ chunks = <<>>
    /\ error = NoError
    /\ buffer \in PriorBuffers
    /\ data \in FieldSnapshots
    /\ arg \in FieldArgs
    /\ prior = buffer
    /\ pc = "call"
    /\ trim_index = 0
    /\ MainIdle

NextField == WriteFieldCall

SpecField == InitField /\ [][NextField]_vars

(***************************************************************************)
(* trim_trailing_zeros alone: one call on any buffer, with any offset.     *)
(***************************************************************************)
\* The characters of the buffers: a zero digit, another digit, the decimal
\* point and a character that is neither.
TrimAlphabet == {"0", "1", ".", " "}

RECURSIVE StringsOfLength(_)
StringsOfLength(n) ==
    IF n = 0 THEN {""}
    ELSE {t \o c : t \in StringsOfLength(n - 1), c \in TrimAlphabet}

TrimBuffers == UNION {StringsOfLength(n) : n \in 0..MaxBuf}

\* formatter::trim_trailing_zeros
TrimCall ==
    /\ pc = "trim"
    /\ prior' = buffer
    /\ buffer' = TrimTrailingZeros(buffer, trim_index)
    /\ pc' = "trimmed"
    /\ UNCHANGED <<format, chunks, error, data, arg, others>>

InitTrim ==
    /\ format = ""
    /\ chunks = <<>>
    /\ error = NoError
    /\ buffer \in TrimBuffers
    /\ data = DefaultData
    /\ arg = FieldUnknown
    /\ prior = buffer
    /\ pc = "trim"
    /\ trim_index \in 0..(MaxBuf + 1)
    /\ MainIdle

NextTrim == TrimCall

SpecTrim == InitTrim /\ [][NextTrim]_vars

(***************************************************************************)
(* The generated templates alone: assemble_availables of the tooltip and   *)
(* of the text configuration, against any source.                          *)
(***************************************************************************)
\* TooltipConfig::assemble_availables
TooltipConfigAssembleAvailables ==
    /\ pc = "handle"
    /\ config.tooltip_format = None
    /\ config' = [config EXCEPT
                    !.tooltip_format = Some(TooltipAssembleAvailables(handle))]
    /\ UNCHANGED <<format, chunks, error, buffer, data, arg, prior, pc,
                   trim_index, clock, drm, handle, args, stdout, text_state, tooltip_state>>

\* TextConfig::assemble_availables
TextConfigAssembleAvailables ==
    /\ pc = "handle"
    /\ config.text_format = None
    /\ config' = [config EXCEPT
                    !.text_format = Some(TextAssembleAvailables(handle))]
    /\ UNCHANGED <<format, chunks, error, buffer, data, arg, prior, pc,
                   trim_index, clock, drm, handle, args, stdout, text_state, tooltip_state>>

InitAvail ==
    /\ format = ""
    /\ chunks = <<>>
    /\ error = NoError
    /\ buffer = ""
    /\ data = DefaultData
    /\ arg = FieldUnknown
    /\ prior = ""
    /\ pc = "handle"
    /\ trim_index = 0
    /\ clock = 0
    /\ DrmIdle
    /\ handle \in Sources
    /\ config = NoConfig
    /\ args = NoConfig
    /\ stdout = <<>>
    /\ text_state = NoState
    /\ tooltip_state = NoState

NextAvail == TooltipConfigAssembleAvailables \/ TextConfigAssembleAvailables

SpecAvail == InitAvail /\ [][NextAvail]_vars

(***************************************************************************)
(* The startup of main and its poll loop.                                  *)
(***************************************************************************)
\* The sources main meets: any of five readings is there or not.
MainSources ==
    {[DefaultData EXCEPT !.powered_on = TRUE, !.has_running_processes = TRUE,
                         !.gpu_utilization = g, !.mem_used = mu,
                         !.mem_total = mt, !.temperature = te, !.p_state = ps] :
        g \in {None, Some(42)}, mu \in {None, Some(2)}, mt \in {None, Some(8)},
        te \in {None, Some(142)}, ps \in {None, Some("P0")}}

\* What the source h returns on a tick: the same readings, other values of
\* them, a temperature that cannot be read this tick, or a GPU that is off
\* or idle.
TickReadings(h) ==
    {h,
     [h EXCEPT !.gpu_utilization = IF IsSome(@) THEN Some(100) ELSE @,
               !.temperature = IF IsSome(@) THEN Some(140) ELSE @],
     [h EXCEPT !.temperature = None],
     [h EXCEPT !.powered_on = FALSE],
     [h EXCEPT !.has_running_processes = FALSE],
     [h EXCEPT !.powered_on = FALSE, !.has_running_processes = FALSE]}

\* The error of a refresh of the source that failed.
RefreshFailed == [tag |-> "RefreshFailed"]

\* What the refresh of the source h gives on a tick: readings, or a failure.
RefreshResults(h) == {Ok(d) : d \in TickReadings(h)} \cup {Err(RefreshFailed)}

\* The polling intervals of the configuration file (the default) and of
\* --interval, in milliseconds.
DefaultInterval == 1000

ArgIntervals == {None, Some(500)}

\* The tooltip formats of the configuration file and of --tooltip-format.
TooltipFormats ==
    {None, Some("GPU: {gpu_utilization}%\nTEMP: {temperature:c}\n"),
     Some("{mem_used:MiB}/{mem_total}")}

\* The text formats of the configuration file and of --text-format.
TextFormats == {Some("{gpu_utilization}%|{mem_utilization}%"), Some("{power}")}

\* main: config.merge_args_into_config(&args)?
MergeArgs ==
    /\ pc = "start"
    /\ config' = MergeArgsIntoConfig(config, args)
    /\ pc' = "merged"
    /\ UNCHANGED <<format, chunks, error, buffer, data, arg, prior,
                   trim_index, clock, drm, handle, args, stdout, text_state, tooltip_state>>

\* main: print_gpu(args.gpu, gpu, &hwdb)?
PrintGpu ==
    /\ pc = "merged"
    /\ stdout' = Append(stdout, PrintGpuLine(0, "GPU", "card0, renderD128"))
    /\ pc' = "printed"
    /\ UNCHANGED <<format, chunks, error, buffer, data, arg, prior,
                   trim_index, clock, drm, handle, config, args, text_state, tooltip_state>>

\* main: get_handle(gpu, &hwdb)? finds the vendor's source
GetHandle ==
    /\ pc = "printed"
    /\ pc' = "handle"
    /\ UNCHANGED <<format, chunks, error, buffer, data, arg, prior,
                   trim_index, clock, drm, handle, config, args, stdout, text_state,
                   tooltip_state>>

\* main: get_handle(gpu, &hwdb)? returns Err("No supported GPU found")
GetHandleFails ==
    /\ pc = "printed"
    /\ error' = [tag |-> "NoSupportedGpu"]
    /\ pc' = "exit"
    /\ UNCHANGED <<format, chunks, buffer, data, arg, prior,
                   trim_index, clock, drm, handle, config, args, stdout, text_state,
                   tooltip_state>>

\* main: the pruning of the tooltip template
Prune ==
    /\ pc = "handle"
    /\ config' = RetainLinesWithValues(config, handle)
    /\ pc' = "pruned"
    /\ UNCHANGED <<format, chunks, error, buffer, data, arg, prior,
                   trim_index, clock, drm, handle, args, stdout, text_state, tooltip_state>>

\* main: the text and the tooltip template are parsed; an error ends main
ParseFormats ==
    /\ pc = "pruned"
    /\ \E r \in {TryFromFormats(config)} :
       IF r.ok
       THEN /\ text_state' = r.val.text_state
            /\ tooltip_state' = r.val.tooltip_state
            /\ error' = NoError
            /\ pc' = "loop"
       ELSE /\ UNCHANGED <<text_state, tooltip_state>>
            /\ error' = r.err
            /\ pc' = "exit"
    /\ UNCHANGED <<format, chunks, buffer, data, arg, prior,
                   trim_index, clock, drm, handle, config, args, stdout>>

\* Tick that, when the refresh fails, writes a record from the readings
\* of the tick before and goes on.
TickDegraded ==
    /\ pc = "loop"
    /\ Len(stdout) <= MaxTicks
    /\ \E r \in RefreshResults(handle) :
          \E d \in {IF r.ok THEN r.val ELSE data} :
             \E text \in {GetText(d, text_state)},
                tooltip \in {GetTooltip(d, tooltip_state)} :
                /\ data' = d
                /\ text_state' = text.state
                /\ tooltip_state' = tooltip.state
                /\ stdout' = Append(stdout, RecordLine(text.text, tooltip.text))
                /\ error' = IF r.ok THEN error ELSE r.err
                /\ pc' = "sleep"
    /\ UNCHANGED <<format, chunks, buffer, arg, prior,
                   trim_index, clock, drm, handle, config, args>>

\* main: one iteration of the loop up to the record: the source is
\* refreshed, the text and the tooltip are rendered and the record is
\* written; a failed refresh ends main.
Tick ==
    /\ pc = "loop"
    /\ Len(stdout) <= MaxTicks
    /\ \E r \in RefreshResults(handle) :
          IF r.ok
          THEN \E text \in {GetText(r.val, text_state)},
                  tooltip \in {GetTooltip(r.val, tooltip_state)} :
                  /\ data' = r.val
                  /\ text_state' = text.state
                  /\ tooltip_state' = tooltip.state
                  /\ stdout' = Append(stdout, RecordLine(text.text, tooltip.text))
                  /\ pc' = "sleep"
                  /\ UNCHANGED error
          ELSE /\ error' = r.err
               /\ pc' = "exit"
               /\ UNCHANGED <<data, text_state, tooltip_state, stdout>>
    /\ UNCHANGED <<format, chunks, buffer, arg, prior,
                   trim_index, clock, drm, handle, config, args>>

\* main: std::thread::sleep(update_interval), the end of the iteration
Sleep ==
    /\ pc = "sleep"
    /\ clock' = clock + config.interval
    /\ pc' = "loop"
    /\ UNCHANGED <<format, chunks, error, buffer, data, arg, prior,
                   trim_index, drm, handle, config, args, stdout, text_state,
                   tooltip_state>>

InitMain ==
    /\ format = ""
    /\ chunks = <<>>
    /\ error = NoError
    /\ buffer = ""
    /\ data = DefaultData
    /\ arg = FieldUnknown
    /\ prior = ""
    /\ pc = "start"
    /\ trim_index = 0
    /\ clock = 0
    /\ DrmIdle
    /\ handle \in MainSources
    /\ config \in [text_format : {Some("{gpu_utilization}%|{mem_utilization}%")},
                   tooltip_format : TooltipFormats,
                   interval : {DefaultInterval}]
    /\ args \in [text_format : TextFormats \cup {None},
                 tooltip_format : TooltipFormats,
                 interval : ArgIntervals]
    /\ stdout = <<>>
    /\ text_state = NoState
    /\ tooltip_state = NoState

NextMain ==
    \/ MergeArgs
    \/ PrintGpu
    \/ GetHandle
    \/ GetHandleFails
    \/ Prune
    \/ ParseFormats
    \/ Tick
    \/ Sleep

SpecMain == InitMain /\ [][NextMain]_vars

\* main with its steps taken: the thread of main runs whenever it can, so an
\* iteration that can be started is started and a sleep ends.
SpecMainLive == SpecMain /\ WF_vars(Tick) /\ WF_vars(Sleep)

(***************************************************************************)
(* The process scan of the backends (nvidia.rs, drm/client.rs).  A process *)
(* list is what ProcessesIter yields: an entry is an error or a process,   *)
(* whose descriptor list is unreadable or a list of entries, each an error *)
(* or a descriptor with its target.  A target is a path, with the file     *)
(* name Path::file_name gives (None for "/"), or something else (a socket, *)
(* a pipe).  A descriptor of a DRM node has an fdinfo file, which may fail *)
(* to open and may hold no drm-client-id line.                             *)
(***************************************************************************)
\* The names of the DRM nodes of the monitored GPU.
devnames == {"card0", "renderD128"}

PathFd(name) == [kind |-> "path", name |-> Some(name), fdinfo |-> None]

\* A descriptor of "/", a path without a file name.
RootFd == [kind |-> "path", name |-> None, fdinfo |-> None]

SocketFd == [kind |-> "socket", name |-> None, fdinfo |-> None]

ErrFd == [kind |-> "err", name |-> None, fdinfo |-> None]

\* A descriptor of a DRM node whose fdinfo opens and holds the client id
\* (Some) or no drm-client-id line (None).
DrmFd(name, id) == [kind |-> "path", name |-> Some(name), fdinfo |-> Some(id)]

Process(fds) == [kind |-> "proc", readable |-> TRUE, fds |-> fds]

\* A process whose descriptor list cannot be read (proc.fd() is an Err); fds
\* is what it holds all the same.
UnreadableProcess(fds) == [kind |-> "proc", readable |-> FALSE, fds |-> fds]

ErrProcess == [kind |-> "err", readable |-> FALSE, fds |-> <<>>]

\* What a panic of the thread leaves: no result.
Panic == Err("panic")

\* n == path.file_name().unwrap() for some n of devnames: a panic when the
\* path has no file name.
NameInDevnames(fd) ==
    IF fd.name = None THEN Panic ELSE Ok(Unwrap(fd.name) \in devnames)

\* has_running_processes: the search of the descriptors of one process.
RECURSIVE AnyFdOpensDevice(_, _)
AnyFdOpensDevice(fds, i) ==
    IF i > Len(fds) THEN Ok(FALSE)
    ELSE IF fds[i].kind # "path" THEN AnyFdOpensDevice(fds, i + 1)
    ELSE IF ~NameInDevnames(fds[i]).ok THEN Panic
    ELSE IF NameInDevnames(fds[i]).val THEN Ok(TRUE)
    ELSE AnyFdOpensDevice(fds, i + 1)

\* has_running_processes(procs, devnames) of nvidia.rs.
RECURSIVE HasRunningProcesses(_, _)
HasRunningProcesses(ps, i) ==
    IF i > Len(ps) THEN Ok(FALSE)
    ELSE IF ps[i].kind = "err" \/ ~ps[i].readable
         THEN HasRunningProcesses(ps, i + 1)
    ELSE IF ~AnyFdOpensDevice(ps[i].fds, 1).ok THEN Panic
    ELSE IF AnyFdOpensDevice(ps[i].fds, 1).val THEN Ok(TRUE)
    ELSE HasRunningProcesses(ps, i + 1)

(***************************************************************************)
(* ClientManager (drm/client.rs) and the Intel backend (intel.rs).  A      *)
(* utilization is the f64 quotient of two integers, kept as the pair.  The *)
(* samples of one update are taken within the same update and are given    *)
(* one Instant.                                                            *)
(***************************************************************************)
Ratio(n, d) == [n |-> n, d |-> d]

RatioZero == Ratio(0, 1)

RatioAdd(a, b) == Ratio(a.n * b.d + b.n * a.d, a.d * b.d)

RatioMax(a, b) == IF a.n * b.d >= b.n * a.d THEN a ELSE b

\* EngineStats::default()
DefaultEngineStats == [utilization |-> None, last_sample |-> None]

\* EngineSample::new(value) at the Instant now
EngineSample(value, now) == [value |-> value, sample_finished_at |-> now]

\* UpdateUtilization that measures from the first sample of the client.
UpdateUtilizationFromFirst(stats, sample) ==
    IF stats.last_sample # None
    THEN [utilization |->
              Some(Ratio(sample.value - Unwrap(stats.last_sample).value,
                         sample.sample_finished_at
                             - Unwrap(stats.last_sample).sample_finished_at)),
          last_sample |-> stats.last_sample]
    ELSE [utilization |-> stats.utilization, last_sample |-> Some(sample)]

\* EngineStats::update_utilization
UpdateUtilization(stats, sample) ==
    [utilization |->
        IF stats.last_sample # None
        THEN Some(Ratio(sample.value - Unwrap(stats.last_sample).value,
                        sample.sample_finished_at
                            - Unwrap(stats.last_sample).sample_finished_at))
        ELSE stats.utilization,
     last_sample |-> Some(sample)]

\* DrmClient::update_engines: reading holds the counters the fdinfo of the
\* client shows, None for an engine whose line is not there.  video_engine,
\* which intel.rs reads, is kept like render_engine.
UpdateEngines(client, reading, now) ==
    [client EXCEPT
        !.render_engine =
            IF reading.render # None
            THEN UpdateUtilization(@, EngineSample(Unwrap(reading.render), now))
            ELSE @,
        !.video_engine =
            IF reading.video # None
            THEN UpdateUtilization(@, EngineSample(Unwrap(reading.video), now))
            ELSE @]

\* The offset of the first client with this id, 0 when there is none.
FindClient(cs, id) ==
    LET js == {j \in 1..Len(cs) : cs[j].id = id} IN
    IF js = {} THEN 0 ELSE CHOOSE j \in js : \A k \in js : j <= k

\* MarkOrInsertClient that pushes a client for every descriptor.
MarkOrInsertClientAlwaysPush(cs, id, tick) ==
    Append(cs, [id |-> id, last_seen |-> tick,
                render_engine |-> DefaultEngineStats,
                video_engine |-> DefaultEngineStats])

\* ClientManager::mark_or_insert_client
MarkOrInsertClient(cs, id, tick) ==
    IF FindClient(cs, id) # 0
    THEN [cs EXCEPT ![FindClient(cs, id)].last_seen = tick]
    ELSE Append(cs, [id |-> id, last_seen |-> tick,
                     render_engine |-> DefaultEngineStats,
                     video_engine |-> DefaultEngineStats])

\* ClientManager::should_manage
ShouldManage(fd) ==
    IF fd.kind # "path" THEN Ok(FALSE) ELSE NameInDevnames(fd)

\* ClientManager::scan_process_fds, from the i-th descriptor on.
RECURSIVE ScanFds(_, _, _, _)
ScanFds(cs, tick, fds, i) ==
    IF i > Len(fds) THEN Ok(cs)
    ELSE IF fds[i].kind = "err" THEN ScanFds(cs, tick, fds, i + 1)
    ELSE IF ~ShouldManage(fds[i]).ok THEN Panic
    ELSE IF ~ShouldManage(fds[i]).val THEN ScanFds(cs, tick, fds, i + 1)
    ELSE IF fds[i].fdinfo = None \/ Unwrap(fds[i].fdinfo) = None
         THEN ScanFds(cs, tick, fds, i + 1)
    ELSE ScanFds(MarkOrInsertClient(cs, Unwrap(Unwrap(fds[i].fdinfo)), tick),
                 tick, fds, i + 1)

\* The loop of update over the processes.
RECURSIVE ScanProcesses(_, _, _, _)
ScanProcesses(cs, tick, ps, i) ==
    IF i > Len(ps) THEN Ok(cs)
    ELSE IF ps[i].kind = "err" \/ ~ps[i].readable
         THEN ScanProcesses(cs, tick, ps, i + 1)
    ELSE IF ~ScanFds(cs, tick, ps[i].fds, 1).ok THEN Panic
    ELSE ScanProcesses(ScanFds(cs, tick, ps[i].fds, 1).val, tick, ps, i + 1)

\* self.clients.retain(|c| c.last_seen == self.current_tick)
Retain(cs, tick) == SelectSeq(cs, LAMBDA c : c.last_seen = tick)

\* The last loop of update: update_engines of every client that is left.
UpdateAllEngines(cs, readings, now) ==
    [j \in 1..Len(cs) |-> UpdateEngines(cs[j], readings[cs[j].id], now)]

\* ClientManager::update after current_tick += 1: the clients it leaves.
\* readings gives, by client id, the counters the fdinfo shows now.
ClientManagerUpdate(cs, tick, ps, readings, now) ==
    IF ~ScanProcesses(cs, tick, ps, 1).ok THEN Panic
    ELSE Ok(UpdateAllEngines(Retain(ScanProcesses(cs, tick, ps, 1).val, tick),
                             readings, now))

\* The sum of the utilizations of an engine, None counted as 0.0.
RECURSIVE SumUtilization(_, _, _)
SumUtilization(cs, engine, i) ==
    IF i > Len(cs) THEN RatioZero
    ELSE RatioAdd(IF cs[i][engine].utilization # None
                  THEN Unwrap(cs[i][engine].utilization) ELSE RatioZero,
                  SumUtilization(cs, engine, i + 1))

\* IntelGpuStatus::compute_render_utilization
ComputeRenderUtilization(cs) == SumUtilization(cs, "render_engine", 1)

\* IntelGpuStatus::compute_video_utilization
ComputeVideoUtilization(cs) == SumUtilization(cs, "video_engine", 1)

\* (decimal * 100.0).round() as u8: the cast saturates at 255.
PercentAsU8(decimal) ==
    IF RoundDiv(100 * decimal.n, decimal.d) > 255 THEN 255
    ELSE RoundDiv(100 * decimal.n, decimal.d)

BrandUnsupported == "BrandUnsupported"

\* IntelGpuStatus::get_u8_field
IntelGetU8Field(cs, field) ==
    CASE field = "gpu_utilization" ->
            Ok(PercentAsU8(RatioMax(ComputeRenderUtilization(cs),
                                    ComputeVideoUtilization(cs))))
      [] field = "render_utilization" ->
            Ok(PercentAsU8(ComputeRenderUtilization(cs)))
      [] field = "video_utilization" ->
            Ok(PercentAsU8(ComputeVideoUtilization(cs)))
      [] OTHER -> Err(BrandUnsupported)

(***************************************************************************)
(* The NVIDIA backend polls the process list.                              *)
(***************************************************************************)
\* The processes a scan may meet.
NvidiaProcesses ==
    { ErrProcess,
      UnreadableProcess(<<PathFd("card0")>>),
      Process(<<>>),
      Process(<<PathFd("null")>>),
      Process(<<PathFd("card0")>>),
      Process(<<SocketFd, ErrFd, PathFd("renderD128")>>),
      Process(<<RootFd>>),
      Process(<<PathFd("card0"), RootFd>>),
      Process(<<PathFd("null"), RootFd, PathFd("card0")>>) }

RECURSIVE SeqsUpTo(_, _)
SeqsUpTo(S, n) ==
    IF n = 0 THEN {<<>>}
    ELSE SeqsUpTo(S, n - 1)
            \cup {Append(s, x) : s \in {t \in SeqsUpTo(S, n - 1) : Len(t) = n - 1},
                                 x \in S}

NvidiaProcLists == SeqsUpTo(NvidiaProcesses, MaxProcs)

\* NvidiaGpuStatus::update
NvidiaUpdate ==
    /\ pc = "polling"
    /\ \E ps \in NvidiaProcLists :
          /\ procs' = ps
          /\ \E r \in {HasRunningProcesses(ps, 1)} :
                IF r.ok
                THEN has_running_procs' = r.val /\ pc' = "polling"
                ELSE pc' = "panicked" /\ UNCHANGED has_running_procs
    /\ UNCHANGED <<format, chunks, error, buffer, data, arg, prior, trim_index,
                   handle, config, args, stdout, text_state, tooltip_state,
                   clock, clients, current_tick, dropped, u8_result>>

InitNvidia ==
    /\ pc = "polling"
    /\ format = "" /\ chunks = <<>> /\ error = NoError /\ buffer = ""
    /\ data = DefaultData /\ arg = FieldUnknown /\ prior = ""
    /\ trim_index = 0
    /\ MainIdle

NextNvidia == NvidiaUpdate

SpecNvidia == InitNvidia /\ [][NextNvidia]_vars

(***************************************************************************)
(* The Intel backend polls the process list and is asked for its fields.   *)
(***************************************************************************)
ClientIds == {1, 2}

TrackedProcess(id) == Process(<<DrmFd("card0", Some(id))>>)

\* The process lists a scan may meet.
IntelProcLists ==
    { <<>>,
      <<TrackedProcess(1)>>,
      <<Process(<<DrmFd("renderD128", Some(2))>>)>>,
      <<TrackedProcess(1), TrackedProcess(2)>>,
      <<TrackedProcess(2), TrackedProcess(1)>>,
      <<Process(<<DrmFd("card0", Some(1)), DrmFd("renderD128", Some(1))>>),
        TrackedProcess(1)>>,
      <<ErrProcess, UnreadableProcess(<<DrmFd("card0", Some(2))>>),
        Process(<<PathFd("card0"), DrmFd("card0", None), SocketFd, ErrFd,
                  PathFd("null")>>),
        TrackedProcess(1)>>,
      <<TrackedProcess(1), Process(<<RootFd>>)>> }

\* The time between two updates.
Elapsed == {2}

\* What a client did since the last update.
Loads == {"none", "render", "video"}

\* The value of the counter of an engine at its last sample.
LastValue(stats) ==
    IF stats.last_sample = None THEN 0 ELSE Unwrap(stats.last_sample).value

EngineOf(cs, id, engine) ==
    IF FindClient(cs, id) = 0 THEN DefaultEngineStats
    ELSE cs[FindClient(cs, id)][engine]

\* The counters the fdinfo of a client shows after dt of this load: the
\* counters only grow, by no more than the time.
Reading(cs, id, load, dt) ==
    CASE load = "none" -> [render |-> None, video |-> None]
      [] load = "video" ->
            [render |-> Some(LastValue(EngineOf(cs, id, "render_engine"))
                                + dt \div 2),
             video |-> Some(LastValue(EngineOf(cs, id, "video_engine")) + dt)]
      [] load = "render" ->
            [render |-> Some(LastValue(EngineOf(cs, id, "render_engine")) + dt),
             video |-> Some(LastValue(EngineOf(cs, id, "video_engine")))]

ClientIdsOf(cs) == {cs[j].id : j \in 1..Len(cs)}

\* IntelGpuStatus::update, the whole of ClientManager::update.
IntelUpdate ==
    /\ pc = "polling"
    /\ current_tick < MaxUpdates
    /\ \E ps \in IntelProcLists, dt \in Elapsed, loads \in [ClientIds -> Loads] :
          /\ procs' = ps
          /\ current_tick' = current_tick + 1
          /\ clock' = clock + dt
          /\ u8_result' = None
          /\ \E r \in {ClientManagerUpdate(clients, current_tick + 1, ps,
                            [id \in ClientIds |->
                                Reading(clients, id, loads[id], dt)],
                            clock + dt)} :
                IF r.ok
                THEN /\ clients' = r.val
                     /\ dropped' = dropped \cup (ClientIdsOf(clients)
                                                    \ ClientIdsOf(r.val))
                     /\ pc' = "polling"
                ELSE /\ pc' = "panicked"
                     /\ UNCHANGED <<clients, dropped>>
    /\ UNCHANGED <<format, chunks, error, buffer, data, arg, prior, trim_index,
                   handle, config, args, stdout, text_state, tooltip_state,
                   has_running_procs>>

\* The fields the formatter asks a backend for as u8.
U8FieldNames ==
    {"gpu_utilization", "render_utilization", "video_utilization", "fan_speed"}

\* A call of IntelGpuStatus::get_u8_field.
IntelGetU8FieldCall ==
    /\ pc = "polling"
    /\ \E field \in U8FieldNames :
          u8_result' = Some([field |-> field,
                             result |-> IntelGetU8Field(clients, field)])
    /\ UNCHANGED <<format, chunks, error, buffer, data, arg, prior, pc, trim_index,
                   handle, config, args, stdout, text_state, tooltip_state,
                   clock, clients, current_tick, procs, has_running_procs,
                   dropped>>

InitIntel ==
    /\ pc = "polling"
    /\ format = "" /\ chunks = <<>> /\ error = NoError /\ buffer = ""
    /\ data = DefaultData /\ arg = FieldUnknown /\ prior = ""
    /\ trim_index = 0
    /\ MainIdle

NextIntel == IntelUpdate \/ IntelGetU8FieldCall

SpecIntel == InitIntel /\ [][NextIntel]_vars


(***************************************************************************)
(* Properties of the parser (checked under SpecParse).                     *)
(***************************************************************************)
\* The placeholders of the template, left to right.
Placeholders == MatchesFrom(format, 1)

\* The conversions of the placeholders ms to Fields.
Conversions(ms) == [i \in 1..Len(ms) |-> FieldTryFrom(ms[i].seg)]

\* The text of the template from which the placeholder m was taken.
SourceText(m) == SubSeq(format, m.start, m.end - 1)

\* sub occurs in s.
Contains(s, sub) ==
    \E i \in 1..(Len(s) - Len(sub) + 1) : SubSeq(s, i, i + Len(sub) - 1) = sub

\* The names of the fields that take a unit.
UnitRequiring == {"mem_used", "mem_total", "tx", "rx", "temperature", "power"}

\* The names of all fields.
Vocabulary ==
    UnitRequiring \cup
    {"p_state", "p_level", "mem_utilization", "gpu_utilization", "mem_rw",
     "decoder_utilization", "encoder_utilization", "fan_speed"}

\* The quantity of a field that takes a unit, as UnitParseError names it.
QuantityOf(name) ==
    CASE name = "temperature" -> "Temperature"
      [] name = "power" -> "Power"
      [] OTHER -> "Memory"

\* The unit texts of a quantity.
UnitTexts(quantity) ==
    CASE quantity = "Memory" ->
            {"KiB", "MiB", "GiB", "KB", "MB", "GB",
             "Kib", "Mib", "Gib", "Kb", "Mb", "Gb"}
      [] quantity = "Temperature" -> {"c", "C", "f", "F", "k", "K"}
      [] quantity = "Power" -> {"w", "kw"}

\* No conversion before the i-th fails.
NoneFailsBefore(fs, i) == \A j \in 1..(i - 1) : fs[j].ok

\* The Variable chunks of a chunk list, in order.
VariableChunks(cs) == SelectSeq(cs, LAMBDA c : c.kind = "Variable")

\* Placeholder texts whose precision is no non-negative integer.
MalformedPrecision ==
    {"{temperature:c.x}", "{temperature:c.}"}

\* C2 (as claimed): a template that holds a placeholder of a unit-requiring
\* field whose precision text is not a non-negative integer never parses
\* successfully.
C2_MalformedPrecisionIsFatal ==
    \A t \in MalformedPrecision :
        (pc # "start" /\ Contains(format, t)) => pc = "failed"

\* The placeholder m names a unit-requiring field and has no unit.
NoUnitIn(m) == m.seg.field \in UnitRequiring /\ m.seg.unit = None

\* C3 (as claimed): parse of a template that holds a unit-requiring
\* placeholder without a unit returns Err(NoUnit).
C3_AlwaysNoUnit ==
    pc # "start" =>
        LET ms == Placeholders IN
        (\E i \in 1..Len(ms) : NoUnitIn(ms[i])) =>
            (pc = "failed" /\ error = NoUnit)

\* C3 (amended): parse of a template that holds a unit-requiring placeholder
\* without a unit never returns a chunk list; it returns Err(NoUnit) when no
\* placeholder before that one fails (otherwise the error of the earlier
\* placeholder).
C3_NoUnitUnlessEarlierError ==
    pc # "start" =>
        LET ms == Placeholders
            fs == Conversions(ms)
        IN (\E i \in 1..Len(ms) : NoUnitIn(ms[i])) =>
               /\ pc = "failed"
               /\ chunks = <<>>
               /\ \A i \in 1..Len(ms) :
                      (NoUnitIn(ms[i]) /\ NoneFailsBefore(fs, i))
                          => error = NoUnit

\* A template whose second placeholder lacks its unit was rejected with NoUnit.
C3_Witness ==
    /\ pc = "failed"
    /\ error = NoUnit
    /\ Len(Placeholders) >= 2
    /\ NoUnitIn(Placeholders[2])
    /\ ~NoUnitIn(Placeholders[1])

\* C4: if any placeholder of the template fails to convert, parse returns
\* the error of the first failing placeholder and no chunk list, wherever
\* the placeholder stands and whatever surrounds it.
C4_FailFast ==
    pc # "start" =>
        LET ms == Placeholders
            fs == Conversions(ms)
        IN \A i \in 1..Len(ms) :
               (~fs[i].ok /\ NoneFailsBefore(fs, i)) =>
                   /\ pc = "failed"
                   /\ chunks = <<>>
                   /\ error = fs[i].err

\* A template was rejected for its second of three placeholders, which stands
\* between placeholders that convert.
C4_Witness ==
    /\ pc = "failed"
    /\ Len(Placeholders) = 3
    /\ ~Conversions(Placeholders)[2].ok
    /\ Conversions(Placeholders)[1].ok
    /\ Conversions(Placeholders)[3].ok

\* C5: a placeholder whose name is not in the vocabulary converts to
\* Unknown with or without a suffix and never is the placeholder that makes
\* parse fail; in the chunk list it is Variable(Unknown) at its position.
C5_UnknownNeverFails ==
    pc # "start" =>
        LET ms == Placeholders
            fs == Conversions(ms)
            vs == VariableChunks(chunks)
        IN \A i \in 1..Len(ms) :
               ms[i].seg.field \notin Vocabulary =>
                   /\ fs[i] = Ok(FieldUnknown)
                   /\ (\A j \in 1..Len(ms) :
                           ms[j].seg.field \in Vocabulary => fs[j].ok)
                         => pc = "parsed"
                   /\ pc = "parsed" =>
                         /\ Len(vs) = Len(ms)
                         /\ vs[i] = Variable(FieldUnknown)

\* A template with an unknown name that carries a suffix, followed by
\* another placeholder, was parsed.
C5_Witness ==
    /\ pc = "parsed"
    /\ Len(Placeholders) >= 2
    /\ Placeholders[1].seg.field \notin Vocabulary
    /\ Placeholders[1].seg.unit # None
    /\ VariableChunks(chunks)[1] = Variable(FieldUnknown)
    /\ VariableChunks(chunks)[2] # Variable(FieldUnknown)

\* The placeholder m names a unit-requiring field and carries a unit that
\* is none of its quantity.
WrongUnitIn(m) ==
    /\ m.seg.field \in UnitRequiring
    /\ m.seg.unit # None
    /\ Unwrap(m.seg.unit) \notin UnitTexts(QuantityOf(m.seg.field))

\* C6: a unit that is none of the placeholder's quantity is the error of
\* that quantity with the unit text (Memory for mem_used, mem_total, tx and
\* rx, Temperature, Power), also when the text is a unit of another
\* quantity; parse returns it when no earlier placeholder fails.
C6_WrongUnitTaggedByQuantity ==
    pc # "start" =>
        LET ms == Placeholders
            fs == Conversions(ms)
        IN \A i \in 1..Len(ms) :
               WrongUnitIn(ms[i]) =>
                   LET e == UnitError(QuantityOf(ms[i].seg.field),
                                      Unwrap(ms[i].seg.unit))
                   IN /\ fs[i] = Err(e)
                      /\ NoneFailsBefore(fs, i) =>
                            (pc = "failed" /\ error = e)

\* A template was rejected because a temperature carries a memory unit.
C6_Witness ==
    /\ pc = "failed"
    /\ error = UnitError("Temperature", "MiB")
    /\ \E i \in 1..Len(Placeholders) :
           /\ WrongUnitIn(Placeholders[i])
           /\ Placeholders[i].seg.field = "temperature"

\* C7 (as claimed): a template that is exactly one placeholder parses to
\* exactly one chunk, and no Static chunk of a parsed template is empty.
C7_NoEmptyStatic ==
    pc = "parsed" =>
        /\ \A i \in 1..Len(chunks) :
               chunks[i].kind = "Static" => chunks[i].text # ""
        /\ (Len(Placeholders) = 1 /\ SourceText(Placeholders[1]) = format)
              => Len(chunks) = 1

\* The chunks cs[i..], read against the template from position cursor with
\* the k-th of the placeholders ms next: a Static chunk holds the text at
\* the cursor and follows no other Static chunk, a Variable chunk stands
\* where the k-th placeholder starts and holds its Field, and at the end the
\* template and its placeholders are used up.
RECURSIVE Aligned(_, _, _, _, _)
Aligned(cs, ms, i, k, cursor) ==
    IF i > Len(cs)
    THEN cursor = Len(format) + 1 /\ k = Len(ms) + 1
    ELSE IF cs[i].kind = "Static"
         THEN /\ cursor + Len(cs[i].text) - 1 <= Len(format)
              /\ cs[i].text = SubSeq(format, cursor, cursor + Len(cs[i].text) - 1)
              /\ (i > 1 => cs[i - 1].kind = "Variable")
              /\ Aligned(cs, ms, i + 1, k, cursor + Len(cs[i].text))
         ELSE /\ k <= Len(ms)
              /\ ms[k].start = cursor
              /\ Ok(cs[i].field) = FieldTryFrom(ms[k].seg)
              /\ Aligned(cs, ms, i + 1, k + 1, ms[k].end)

\* The chunk list with every Variable chunk replaced by the source text of
\* its placeholder, concatenated.
RECURSIVE Unparse(_, _, _, _)
Unparse(cs, ms, i, k) ==
    IF i > Len(cs) THEN ""
    ELSE IF cs[i].kind = "Static" THEN cs[i].text \o Unparse(cs, ms, i + 1, k)
    ELSE SourceText(ms[k]) \o Unparse(cs, ms, i + 1, k + 1)

\* C8: the Variable chunks of a parsed template are its placeholders in
\* order, every Static chunk is the text between two placeholders (or before
\* the first, or after the last) verbatim, and putting the source text of
\* the placeholders back reproduces the template.
C8_OrderAndTextPreserved ==
    pc = "parsed" =>
        LET ms == Placeholders IN
        /\ Len(VariableChunks(chunks)) = Len(ms)
        /\ Aligned(chunks, ms, 1, 1, 1)
        /\ Unparse(chunks, ms, 1, 1) = format

\* A template with two placeholders and text with a newline between them
\* was parsed.
C8_Witness ==
    /\ pc = "parsed"
    /\ Len(Placeholders) = 2
    /\ \E i \in 2..(Len(chunks) - 1) :
           /\ chunks[i] = Static("%\n")
           /\ chunks[i - 1].kind = "Variable"
           /\ chunks[i + 1].kind = "Variable"

(***************************************************************************)
(* Properties of write_field (checked under SpecField).                    *)
(***************************************************************************)
\* The text the call appended to the buffer.
Appended == SubSeq(buffer, Len(prior) + 1, Len(buffer))

\* The number of characters of t that follow its first '.', or -1 when t
\* has no '.'.
FractionLength(t) ==
    IF \E i \in 1..Len(t) : CharAt(t, i) = "."
    THEN Len(t) - (CHOOSE i \in 1..Len(t) :
                      /\ CharAt(t, i) = "."
                      /\ \A j \in 1..(i - 1) : CharAt(t, j) # ".")
    ELSE -1

\* C1 (as claimed): with a precision N on a unit-bearing field, write_field
\* appends the value with exactly N fractional digits, and with no decimal
\* point when N = 0.
C1_ExactFractionDigits ==
    (pc = "written" /\ arg.kind \in {"Mem", "Temperature", "Power"}
        /\ IsSome(arg.precision)) =>
        /\ SubSeq(buffer, 1, Len(prior)) = prior
        /\ FractionLength(Appended) =
              (IF Unwrap(arg.precision) = 0 THEN -1 ELSE Unwrap(arg.precision))

(***************************************************************************)
(* Properties of assemble (checked under Spec).                            *)
(***************************************************************************)
\* What a chunk renders to on its own: Static text verbatim, a Variable
\* chunk as write_field formats its value into an empty buffer, "N/A" when
\* write_field has no value.
Rendering(chunk, d) ==
    IF chunk.kind = "Static" THEN chunk.text
    ELSE LET r == WriteField(d, chunk.field, "") IN
         IF r.ok THEN r.val ELSE "N/A"

RECURSIVE ConcatRenderings(_, _, _)
ConcatRenderings(cs, d, i) ==
    IF i > Len(cs) THEN ""
    ELSE Rendering(cs[i], d) \o ConcatRenderings(cs, d, i + 1)

\* C9: after assemble the buffer is the concatenation, in order, of what
\* the chunks render to; "GPU: {gpu_utilization}%" with gpu_utilization = 42
\* gives "GPU: 42%".
C9_AssembleConcatenates ==
    pc = "assembled" =>
        /\ buffer = ConcatRenderings(chunks, data, 1)
        /\ (format = "GPU: {gpu_utilization}%"
               /\ data.gpu_utilization = Some(42)) => buffer = "GPU: 42%"

\* The template of the scenario was rendered with gpu_utilization = 42.
C9_Witness ==
    /\ pc = "assembled"
    /\ format = "GPU: {gpu_utilization}%"
    /\ data.gpu_utilization = Some(42)
    /\ buffer = "GPU: 42%"

\* What the chunks cs[i..] must render to: "N/A" for a Variable chunk that
\* is Unknown or whose field the snapshot lacks, and the rendering of every
\* other chunk.
RECURSIVE ExpectedWithMarkers(_, _, _)
ExpectedWithMarkers(cs, d, i) ==
    IF i > Len(cs) THEN ""
    ELSE (IF cs[i].kind = "Variable" /\ IsFieldUnavailable(d, cs[i].field)
          THEN "N/A"
          ELSE Rendering(cs[i], d))
         \o ExpectedWithMarkers(cs, d, i + 1)

\* C10: a Variable chunk that cannot be resolved (Unknown, or a field the
\* snapshot lacks, mem_utilization with a missing operand included)
\* contributes "N/A" once, and the chunks before and after it are rendered
\* all the same.
C10_UnavailableIsMarker ==
    pc = "assembled" => buffer = ExpectedWithMarkers(chunks, data, 1)

\* A template was rendered whose middle chunk is mem_utilization with
\* mem_total missing, between a Static chunk and an available field.
C10_Witness ==
    /\ pc = "assembled"
    /\ Len(chunks) >= 3
    /\ chunks[1].kind = "Static"
    /\ chunks[2] = Variable(FieldMemUtilization)
    /\ IsSome(data.mem_used)
    /\ data.mem_total = None
    /\ chunks[3].kind = "Variable"
    /\ ~IsFieldUnavailable(data, chunks[3].field)
    /\ buffer = chunks[1].text \o "N/A" \o Rendering(chunks[3], data)

(***************************************************************************)
(* Properties of trim_trailing_zeros (checked under SpecTrim).             *)
(***************************************************************************)
\* The 0-based offset of the last '.' of t, or -1 when t has none.
LastDotOffset(t) ==
    IF \E i \in 1..Len(t) : CharAt(t, i) = "."
    THEN (CHOOSE i \in 1..Len(t) :
             /\ CharAt(t, i) = "."
             /\ \A j \in (i + 1)..Len(t) : CharAt(t, j) # ".") - 1
    ELSE -1

\* The first n characters of t (all of t when it has fewer).
Prefix(t, n) == SubSeq(t, 1, IF n < Len(t) THEN n ELSE Len(t))

\* C11: trim_trailing_zeros(buf, scan_end_index) leaves buf[0..scan_end_index]
\* as it was, and leaves the whole buffer as it was when the last '.' lies at
\* or before scan_end_index.
C11_TrimFrame ==
    pc = "trimmed" =>
        /\ Prefix(buffer, trim_index) = Prefix(prior, trim_index)
        /\ (LastDotOffset(prior) <= trim_index => buffer = prior)

\* A buffer whose only '.' lies before the offset and whose text after the
\* offset ends in '0' was handed to trim_trailing_zeros and came back as it
\* was.
C11_Witness ==
    /\ pc = "trimmed"
    /\ prior = "1.0 0"
    /\ trim_index = 4
    /\ buffer = "1.0 0"

\* t is a rendered value: digits, then possibly a '.' and more digits.
IsValueText(t) ==
    /\ Len(t) > 0
    /\ \A i \in 1..Len(t) : CharAt(t, i) \in {"0", "1", "."}
    /\ CharAt(t, 1) # "."
    /\ Cardinality({i \in 1..Len(t) : CharAt(t, i) = "."}) <= 1

\* t without the characters c it ends with.
RECURSIVE StripTrailing(_, _)
StripTrailing(t, c) ==
    IF Len(t) > 0 /\ CharAt(t, Len(t)) = c
    THEN StripTrailing(SubSeq(t, 1, Len(t) - 1), c)
    ELSE t

\* The value text with the zeros that end its fraction removed, and the '.'
\* too when no fractional digit is left; a text with no '.' as it is.
Trimmed(t) ==
    IF LastDotOffset(t) = -1 THEN t
    ELSE LET z == StripTrailing(t, "0") IN
         IF CharAt(z, Len(z)) = "." THEN SubSeq(z, 1, Len(z) - 1) ELSE z

\* C12: the text appended for a value loses the '0' digits that end its
\* fraction, and its '.' when no fractional digit remains; a value with no
\* '.' keeps all its digits; the text before it stays.
C12_TrailingZerosTrimmed ==
    (pc = "trimmed" /\ trim_index <= Len(prior)
        /\ IsValueText(SubSeq(prior, trim_index + 1, Len(prior)))) =>
        buffer = SubSeq(prior, 1, trim_index)
                    \o Trimmed(SubSeq(prior, trim_index + 1, Len(prior)))

\* After text that holds a '.' of its own, "1.00" came back as "1".
C12_Witness ==
    /\ pc = "trimmed"
    /\ trim_index = 1
    /\ prior = ".1.00"
    /\ buffer = ".1"

(***************************************************************************)
(* Properties of the derived field (checked under Spec).                   *)
(***************************************************************************)
\* C13: mem_utilization is unavailable, and renders "N/A", exactly when
\* mem_used or mem_total is missing from the snapshot.
C13_MemUtilizationNeedsBoth ==
    pc = "assembled" =>
        LET missing == data.mem_used = None \/ data.mem_total = None IN
        /\ IsFieldUnavailable(data, FieldMemUtilization) <=> missing
        /\ WriteField(data, FieldMemUtilization, "").ok <=> ~missing
        /\ format = "{mem_utilization}" => ((buffer = "N/A") <=> missing)

\* "{mem_utilization}" was rendered as "N/A" against a snapshot that has
\* mem_used and lacks mem_total.
C13_Witness ==
    /\ pc = "assembled"
    /\ format = "{mem_utilization}"
    /\ IsSome(data.mem_used)
    /\ data.mem_total = None
    /\ buffer = "N/A"

(***************************************************************************)
(* Properties of the generated templates (checked under SpecAvail).        *)
(***************************************************************************)
\* The lines of the default tooltip template.
DefaultLines == SplitInclusive(DEFAULT_FORMAT)

\* The names of the placeholders of each line of the default template.
DefaultLineNames ==
    [i \in 1..Len(DefaultLines) |->
        LET ms == MatchesFrom(DefaultLines[i], 1) IN
        {ms[k].seg.field : k \in 1..Len(ms)}]

\* The source h can supply the field called name.
NameAvailable(h, name) ==
    IF name = "mem_utilization" THEN h.mem_used # None /\ h.mem_total # None
    ELSE IF name \in DOMAIN h THEN h[name] # None
    ELSE FALSE

\* The source exposes nothing.
ExposesNothing(h) ==
    \A name \in DOMAIN h \ {"has_running_processes", "powered_on"} :
        h[name] = None

\* C14: a line of the default template is in the pruned template if and
\* only if every placeholder on it is available from the source (so a line
\* with no placeholder always is); a source that exposes nothing gives "".
C14_AllOrNothingPerLine ==
    config.tooltip_format # None =>
        LET kept == SplitInclusive(Unwrap(config.tooltip_format)) IN
        /\ \A i \in 1..Len(DefaultLines) :
              (\E k \in 1..Len(kept) : kept[k] = DefaultLines[i])
                  <=> \A name \in DefaultLineNames[i] : NameAvailable(handle, name)
        /\ ExposesNothing(handle) => Unwrap(config.tooltip_format) = ""

\* The source supplies mem_used and not mem_total: the MEM USED line, with
\* one placeholder available and two not, is dropped, and the PSTATE line is
\* kept.
C14_Witness ==
    /\ config.tooltip_format # None
    /\ handle.mem_used # None
    /\ handle.mem_total = None
    /\ handle.p_state # None
    /\ ~Contains(Unwrap(config.tooltip_format), "MEM USED")
    /\ Contains(Unwrap(config.tooltip_format), "PSTATE: {p_state}\n")

\* t begins with p.
StartsWith(t, p) == Len(p) <= Len(t) /\ SubSeq(t, 1, Len(p)) = p

\* t is the concatenation of some of lines[i..], in their order.
RECURSIVE IsLineSubsequence(_, _, _)
IsLineSubsequence(t, lines, i) ==
    IF t = "" THEN TRUE
    ELSE IF i > Len(lines) THEN FALSE
    ELSE IF StartsWith(t, lines[i])
    THEN IsLineSubsequence(SubSeq(t, Len(lines[i]) + 1, Len(t)), lines, i + 1)
    ELSE IsLineSubsequence(t, lines, i + 1)

\* The source exposes p_state, tx and rx and nothing else.
ExposesOnlyPStateTxRx(h) ==
    \A name \in DOMAIN h \ {"has_running_processes", "powered_on"} :
        (h[name] # None) <=> name \in {"p_state", "tx", "rx"}

\* C15: the pruned template is the concatenation of some lines of the
\* default template, in their order, each with its own line terminator;
\* with a source exposing only p_state, tx and rx it is the PSTATE, TX and
\* RX lines.
C15_PrunedIsSubsequence ==
    config.tooltip_format # None =>
        /\ IsLineSubsequence(Unwrap(config.tooltip_format), DefaultLines, 1)
        /\ ExposesOnlyPStateTxRx(handle) =>
              Unwrap(config.tooltip_format)
                  = "PSTATE: {p_state}\nTX: {tx:MiB.3} MiB/s\nRX: {rx:MiB.3} MiB/s"

\* The template pruned for a source exposing only p_state, tx and rx.
C15_Witness ==
    /\ config.tooltip_format # None
    /\ ExposesOnlyPStateTxRx(handle)
    /\ Unwrap(config.tooltip_format)
          = "PSTATE: {p_state}\nTX: {tx:MiB.3} MiB/s\nRX: {rx:MiB.3} MiB/s"

\* C18: the generated text format is "{gpu_utilization}%", followed by
\* "|{mem_utilization}%" exactly when mem_used and mem_total are both
\* readable; gpu_utilization need not be.
C18_TextFormatGenerated ==
    config.text_format # None =>
        Unwrap(config.text_format)
            = "{gpu_utilization}%"
                \o (IF handle.mem_used # None /\ handle.mem_total # None
                    THEN "|{mem_utilization}%" ELSE "")

\* The text format generated for a source that lacks gpu_utilization and
\* has both memory readings.
C18_Witness ==
    /\ config.text_format # None
    /\ handle.gpu_utilization = None
    /\ handle.mem_used # None
    /\ handle.mem_total # None
    /\ Unwrap(config.text_format) = "{gpu_utilization}%|{mem_utilization}%"

(***************************************************************************)
(* Properties of main (checked under SpecMain).                            *)
(***************************************************************************)
\* The readings d and h make the same fields available.
SameAvailability(d, h) ==
    \A name \in DOMAIN h \ {"has_running_processes", "powered_on"} :
        (d[name] = None) <=> (h[name] = None)

\* The tooltip format is none the user set: it is the default template,
\* pruned against the source.
TooltipWasPruned ==
    pc \in {"pruned", "loop", "sleep"} /\ config.tooltip_format \notin TooltipFormats

\* C16: the tooltip template pruned against the source, rendered against
\* readings with the same available fields, gives a tooltip without "N/A".
C16_PrunedRendersNoMarker ==
    (/\ pc = "loop"
     /\ Len(stdout) > 1
     /\ TooltipWasPruned
     /\ data.powered_on /\ data.has_running_processes
     /\ SameAvailability(data, handle)) =>
        /\ ~Contains(tooltip_state.buffer, "N/A")
        /\ stdout[Len(stdout)]
              = RecordLine(text_state.buffer, tooltip_state.buffer)

\* A pruned template that kept the GPU and TEMP lines was rendered.
C16_Witness ==
    /\ pc = "loop"
    /\ Len(stdout) > 1
    /\ data.powered_on /\ data.has_running_processes
    /\ SameAvailability(data, handle)
    /\ handle.mem_used # None /\ handle.mem_total = None
    /\ Contains(tooltip_state.buffer, "GPU: 42%\n")
    /\ Contains(tooltip_state.buffer, "TEMP: 35.5*C\n")
    /\ config.tooltip_format = Some(TooltipAssembleAvailables(handle))

\* The default template without the lines that name a field the source h
\* cannot supply.
RECURSIVE PrunedDefault(_, _)
PrunedDefault(h, i) ==
    IF i > Len(DefaultLines) THEN ""
    ELSE (IF \A name \in DefaultLineNames[i] : NameAvailable(h, name)
          THEN DefaultLines[i] ELSE "")
         \o PrunedDefault(h, i + 1)

\* What one step of main may do to the tooltip format and the tooltip
\* chunks: the merge takes --tooltip-format, else keeps the file's format;
\* the pruning step writes the pruned default only when no format is set;
\* no other step changes the format, and no tick changes the chunks.
TooltipFormatStep ==
    /\ pc = "start" =>
          config'.tooltip_format =
              IF args.tooltip_format # None THEN args.tooltip_format
              ELSE config.tooltip_format
    /\ pc = "handle" =>
          config'.tooltip_format =
              IF config.tooltip_format # None THEN config.tooltip_format
              ELSE Some(PrunedDefault(handle, 1))
    /\ pc \notin {"start", "handle"} =>
          config'.tooltip_format = config.tooltip_format
    /\ pc = "loop" => tooltip_state'.chunks = tooltip_state.chunks

\* In the loop a format given by --tooltip-format is the one that was parsed
\* and, when the GPU is on and busy, the one rendered: chunk by chunk, "N/A"
\* for the fields that are unavailable.
UserTooltipAsWritten ==
    (pc = "loop" /\ args.tooltip_format # None) =>
        /\ config.tooltip_format = args.tooltip_format
        /\ tooltip_state.chunks = parse(Unwrap(args.tooltip_format)).val
        /\ (Len(stdout) > 1 /\ data.powered_on /\ data.has_running_processes) =>
              tooltip_state.buffer
                  = ConcatRenderings(tooltip_state.chunks, data, 1)

\* C17: the tooltip template is pruned only when the user set no tooltip
\* format; a format the user set is parsed and rendered as written; the
\* pruning happens in the startup and no tick repeats it.
C17_PrunedOnlyWhenUnsetAndOnce ==
    []UserTooltipAsWritten /\ [][TooltipFormatStep]_vars

\* A tooltip format given by the user, with a line whose field the source
\* lacks, was rendered with "N/A" on that line.
C17_Witness ==
    /\ pc = "loop"
    /\ Len(stdout) > 1
    /\ args.tooltip_format = Some("GPU: {gpu_utilization}%\nTEMP: {temperature:c}\n")
    /\ handle.temperature = None
    /\ handle.gpu_utilization # None
    /\ tooltip_state.buffer = "GPU: 42%\nTEMP: N/A\n"

\* t ends with p.
EndsWith(t, p) ==
    Len(p) <= Len(t) /\ SubSeq(t, Len(t) - Len(p) + 1, Len(t)) = p

\* l is one line, the JSON object of a record and its line feed.
IsRecordLine(l) ==
    /\ StartsWith(l, "{\"text\":\"")
    /\ Contains(l, "\",\"tooltip\":\"")
    /\ EndsWith(l, "\"}\n")
    /\ \A i \in 1..(Len(l) - 1) : CharAt(l, i) # "\n"

\* C19 (as claimed): every line written to standard output is the record of
\* a tick.
C19_OnlyRecordsOnStdout ==
    \A i \in 1..Len(stdout) : IsRecordLine(stdout[i])

\* The text or the tooltip template main hands to try_from_format does not
\* parse.
MalformedTemplate ==
    /\ pc \in {"pruned", "loop", "exit"}
    /\ config.tooltip_format # None
    /\ \/ ~parse(Unwrap(config.text_format)).ok
       \/ ~parse(Unwrap(config.tooltip_format)).ok

\* C20: with a text or tooltip template that does not parse, main never
\* enters the loop, ends with an error and writes no record.
C20_MalformedTemplateNeverLoops ==
    MalformedTemplate =>
        /\ pc # "loop"
        /\ pc = "exit" => error # NoError
        /\ \A i \in 1..Len(stdout) : ~IsRecordLine(stdout[i])

\* main ended with NoUnit for --text-format "{power}", having written no
\* record.
C20_Witness ==
    /\ pc = "exit"
    /\ args.text_format = Some("{power}")
    /\ error = NoUnit
    /\ \A i \in 1..Len(stdout) : ~IsRecordLine(stdout[i])

(***************************************************************************)
(* Suffixes on fields that take none (checked under SpecParse).            *)
(***************************************************************************)
\* The Field of a name that takes no unit.
BareField(name) ==
    CASE name = "p_state" -> FieldPState
      [] name = "p_level" -> FieldPLevel
      [] name = "mem_utilization" -> FieldMemUtilization
      [] OTHER -> FieldU8(name)

\* The names that take no unit.
NoUnitNames ==
    {"p_state", "p_level", "mem_utilization", "gpu_utilization", "mem_rw",
     "decoder_utilization", "encoder_utilization", "fan_speed"}

\* The placeholder m names a field that takes no unit and carries a suffix.
SuffixOnNoUnitField(m) == m.seg.field \in NoUnitNames /\ m.seg.unit # None

\* C29: a placeholder with a unit or precision suffix on a field that takes
\* none converts, and to the Field of the bare name; parse does not fail on
\* it, and its chunk is the Variable of that Field.
C29_SuffixIgnoredOnNoUnitField ==
    LET ms == Placeholders
        fs == Conversions(ms)
    IN \A i \in 1..Len(ms) :
          SuffixOnNoUnitField(ms[i]) =>
             /\ fs[i] = Ok(BareField(ms[i].seg.field))
             /\ pc = "failed" => \E j \in 1..Len(ms) : j # i /\ ~fs[j].ok
             /\ pc = "parsed" =>
                   VariableChunks(chunks)[i] = Variable(BareField(ms[i].seg.field))

\* "{gpu_utilization:w.99999999999999999999}" was parsed to the Variable of
\* gpu_utilization: neither the unit of another quantity nor a precision
\* too large for usize is looked at.
C29_Witness ==
    /\ pc = "parsed"
    /\ format = "GPU: {gpu_utilization:w.99999999999999999999}%\n"
    /\ chunks = <<Static("GPU: "), Variable(FieldU8("gpu_utilization")),
                  Static("%\n")>>

(***************************************************************************)
(* The default tooltip template converts and parses (checked under         *)
(* SpecAvail).                                                             *)
(***************************************************************************)
\* The conversions of the placeholders of the i-th line of DEFAULT_FORMAT.
DefaultLineConversions(i) == Conversions(MatchesFrom(DefaultLines[i], 1))

\* C30: every placeholder of DEFAULT_FORMAT converts to a Field, so the
\* unwrap of assemble_availables does not panic, and the format that
\* assemble_availables sets for the tooltip parses.
C30_DefaultTemplateConvertsAndParses ==
    /\ \A i \in 1..Len(DefaultLines) :
          \A k \in 1..Len(DefaultLineConversions(i)) :
             DefaultLineConversions(i)[k].ok
    /\ config.tooltip_format # None =>
          StateTryFromFormat(Unwrap(config.tooltip_format)).ok

\* The tooltip format of a source that supplies every field of the
\* vocabulary was set and parsed; its last chunks are those of the RX line.
C30_Witness ==
    /\ config.tooltip_format # None
    /\ \A name \in DOMAIN handle \ {"has_running_processes", "powered_on"} :
          handle[name] # None
    /\ LET r == StateTryFromFormat(Unwrap(config.tooltip_format)) IN
       /\ r.ok
       /\ r.val.chunks[Len(r.val.chunks) - 1]
             = Variable(FieldMem("rx", "MiB", Some(3)))
       /\ r.val.chunks[Len(r.val.chunks)] = Static(" MiB/s")

(***************************************************************************)
(* The poll loop (checked under SpecMainLive and SpecMain).                *)
(***************************************************************************)
\* The step is an iteration of the loop whose refresh gave readings.
TickDone == pc = "loop" /\ pc' = "sleep"

\* The readings show the GPU on and in use: the templates are rendered.
Rendered(d) == d.powered_on /\ d.has_running_processes

\* The interval the user configured: --interval, else the file's.
ConfiguredInterval ==
    IF args.interval # None THEN Unwrap(args.interval) ELSE DefaultInterval

\* An iteration whose refresh gave readings writes one complete record, the
\* rendered templates with "N/A" for what the readings lack and the value
\* for what they hold, and goes to sleep; the sleep lasts the configured
\* interval and leads to the next iteration.
PollStep ==
    /\ TickDone =>
          /\ Len(stdout') = Len(stdout) + 1
          /\ SubSeq(stdout', 1, Len(stdout)) = stdout
          /\ IsRecordLine(stdout'[Len(stdout')])
          /\ Rendered(data') =>
                /\ text_state'.buffer
                      = ExpectedWithMarkers(text_state.chunks, data', 1)
                /\ tooltip_state'.buffer
                      = ExpectedWithMarkers(tooltip_state.chunks, data', 1)
                /\ stdout'[Len(stdout')]
                      = RecordLine(text_state'.buffer, tooltip_state'.buffer)
    /\ pc = "sleep" =>
          /\ pc' = "loop"
          /\ clock' = clock + ConfiguredInterval
          /\ stdout' = stdout
    /\ (pc = "loop" /\ pc' = "exit") => error' = RefreshFailed

\* C21: once the loop runs, readings that lack a metric never stop it: the
\* iteration writes a complete record with "N/A" for the metric, sleeps for
\* the configured interval and the next iteration starts; a metric that is
\* back is shown with its value.  Only a failed refresh ends the loop.
C21_UnavailableNeverStopsLoop ==
    /\ [][PollStep]_vars
    /\ [](pc = "sleep" => <>(pc = "loop"))
    /\ []((pc = "loop" /\ Len(stdout) <= MaxTicks) => <>(pc \in {"sleep", "exit"}))

\* The temperature was missing on the first tick and read on the second:
\* "N/A" in the first record, the value in the second, two sleeps between.
C21_Witness ==
    /\ pc = "loop"
    /\ Len(stdout) = 3
    /\ Contains(stdout[2], "TEMP: N/A")
    /\ Contains(stdout[3], "TEMP: 35.5")
    /\ args.interval = Some(500)
    /\ clock = 1000

\* A failed refresh ends main in the same step, with the error and without
\* a record; nothing is written after main has ended.
RefreshFailureStep ==
    /\ (pc = "loop" /\ error' = RefreshFailed) =>
          /\ pc' = "exit"
          /\ stdout' = stdout
    /\ pc = "exit" => (pc' = "exit" /\ stdout' = stdout)

BufferStep ==
    /\ (TickDone /\ Rendered(data')) =>
          /\ text_state'.buffer = ConcatRenderings(text_state.chunks, data', 1)
          /\ tooltip_state'.buffer
                = ConcatRenderings(tooltip_state.chunks, data', 1)
    /\ pc \in {"loop", "sleep"} =>
          /\ text_state'.chunks = text_state.chunks
          /\ tooltip_state'.chunks = tooltip_state.chunks

\* C23: assemble clears the buffer it reuses: after any number of calls the
\* buffer is the rendering of the chunks against the latest snapshot only,
\* and rendering never changes the chunks.
C23_BufferHoldsLatestRenderingOnly == [][BufferStep]_vars

\* Two ticks rendered the text template: "42%|25%" went into the first
\* record, and the buffer now holds "100%|25%" and nothing of the first.
C23_Witness ==
    /\ Len(stdout) = 3
    /\ StartsWith(stdout[2], "{\"text\":\"42%|25%\"")
    /\ Rendered(data)
    /\ text_state.buffer = "100%|25%"

\* The record of a tick by the power state, the idle state and the
\* templates, in this order of priority; an off or idle GPU leaves both
\* States as they were.
PowerStateStep ==
    TickDone =>
        LET record == stdout'[Len(stdout')] IN
        /\ ~data'.powered_on =>
              /\ record = RecordLine("Off", "GPU powered off")
              /\ text_state' = text_state /\ tooltip_state' = tooltip_state
        /\ (data'.powered_on /\ ~data'.has_running_processes) =>
              /\ record = RecordLine("Idle", "GPU idle")
              /\ text_state' = text_state /\ tooltip_state' = tooltip_state
        /\ (data'.powered_on /\ data'.has_running_processes) =>
              /\ record = RecordLine(text_state'.buffer, tooltip_state'.buffer)
              /\ text_state'.buffer
                    = Assemble(text_state.chunks, data', text_state.buffer)
              /\ tooltip_state'.buffer
                    = Assemble(tooltip_state.chunks, data', tooltip_state.buffer)

\* C26: get_text and get_tooltip put the power state before the idle state
\* and both before the template: "Off" / "GPU powered off" when the GPU is
\* off, even with running processes, "Idle" / "GPU idle" when it is on and
\* unused, the assembled template otherwise; an off or idle GPU leaves the
\* buffer and the chunks of the State unchanged.
C26_PowerStateBeforeTemplate == [][PowerStateStep]_vars

\* After a rendered tick the GPU was off with processes running: the record
\* says "Off", and the text buffer still holds the rendering of the tick
\* before.
C26_Witness ==
    /\ Len(stdout) = 3
    /\ stdout[3] = RecordLine("Off", "GPU powered off")
    /\ ~data.powered_on /\ data.has_running_processes
    /\ text_state.buffer = "42%|25%"

(***************************************************************************)
(* The process scan of the NVIDIA backend.                                 *)
(***************************************************************************)
\* The process has a readable descriptor list with a descriptor whose target
\* is a path with a file name of devnames.
HoldsDevice(p) ==
    /\ p.kind = "proc"
    /\ p.readable
    /\ \E i \in 1..Len(p.fds) :
          /\ p.fds[i].kind = "path"
          /\ p.fds[i].name # None
          /\ Unwrap(p.fds[i].name) \in devnames

NvidiaUpdateStep ==
    NvidiaUpdate =>
        /\ pc' = "polling"
        /\ has_running_procs' = (\E i \in 1..Len(procs') : HoldsDevice(procs'[i]))

\* C25: has_running_processes returns true if and only if some process whose
\* descriptor list is readable holds a descriptor whose target is a path with
\* a file name of devnames; a process whose descriptors cannot be read is
\* skipped and causes neither an error nor a true result.
C25_TrueIffReadableProcessHoldsDevice == [][NvidiaUpdateStep]_vars

(***************************************************************************)
(* The Intel backend: the clients it tracks and the percentages it gives.  *)
(***************************************************************************)
\* The client ids a scan of the process list meets: those of the fdinfo of
\* the descriptors of a DRM node of devnames in the processes whose
\* descriptor list is readable.
ObservedIds(ps) ==
    {id \in ClientIds :
        \E i \in 1..Len(ps) :
            /\ ps[i].kind = "proc"
            /\ ps[i].readable
            /\ \E k \in 1..Len(ps[i].fds) :
                  /\ ps[i].fds[k].kind = "path"
                  /\ ps[i].fds[k].name # None
                  /\ Unwrap(ps[i].fds[k].name) \in devnames
                  /\ ps[i].fds[k].fdinfo = Some(Some(id))}

\* A step of an update that returned: update alone moves current_tick.
UpdateReturned == current_tick' # current_tick /\ pc' = "polling"

TrackedSetStep ==
    UpdateReturned =>
        /\ current_tick' = current_tick + 1
        /\ \A i, j \in 1..Len(clients') :
              clients'[i].id = clients'[j].id => i = j
        /\ \A i \in 1..Len(clients') : clients'[i].last_seen = current_tick'
        /\ ClientIdsOf(clients') = ObservedIds(procs')
        /\ dropped' = dropped \cup (ClientIdsOf(clients) \ ObservedIds(procs'))

\* C27: after every ClientManager::update no two tracked clients have the
\* same id, every tracked client has last_seen equal to current_tick, the
\* tracked ids are exactly the ids observed in the scan of that update (a
\* client that was not observed is removed in the same update), and
\* current_tick has grown by exactly one.
C27_TrackedSetIsObservedSet == [][TrackedSetStep]_vars

\* Client 1 was tracked and is removed by the second update, which observed
\* client 2 only.
C27_Witness ==
    /\ pc = "polling"
    /\ current_tick = 2
    /\ 1 \in dropped
    /\ ObservedIds(procs) = {2}
    /\ ClientIdsOf(clients) = {2}

Engines == {"render_engine", "video_engine"}

\* The engine was sampled in the update that ends at time now.
SampledAt(stats, now) ==
    stats.last_sample # None /\ Unwrap(stats.last_sample).sample_finished_at = now

\* What an update may leave of the statistics old of an engine of a client
\* that stays tracked.
Continues(old, new, now) ==
    \/ new = old
    \/ /\ SampledAt(new, now)
       /\ ~SampledAt(old, now)
       /\ new.utilization =
            IF old.last_sample = None THEN None
            ELSE Some(Ratio(Unwrap(new.last_sample).value
                                - Unwrap(old.last_sample).value,
                            now - Unwrap(old.last_sample).sample_finished_at))

\* What an update leaves of an engine of a client it starts to track.
StartsOver(new, now) ==
    /\ new.utilization = None
    /\ new.last_sample = None \/ SampledAt(new, now)

SameRatio(a, b) == a.n * b.d = b.n * a.d

HasUtilization(c, engine) == c[engine].utilization # None

UtilizationStep ==
    UpdateReturned =>
        \A e \in Engines :
            /\ \A j \in 1..Len(clients') :
                  IF FindClient(clients, clients'[j].id) = 0
                  THEN StartsOver(clients'[j][e], clock')
                  ELSE Continues(EngineOf(clients, clients'[j].id, e),
                                 clients'[j][e], clock')
            /\ SameRatio(SumUtilization(clients', e, 1),
                         SumUtilization(
                            SelectSeq(clients', LAMBDA c : HasUtilization(c, e)),
                            e, 1))

\* C28: the utilization of an engine of a client is None until the client has
\* been sampled twice while it stayed tracked; from then on it is the growth
\* of the counter divided by the time between the two most recent samples; a
\* client that was removed and is observed again starts over with utilization
\* None and no earlier sample; a client with utilization None adds 0 to the
\* sum of the Intel backend.
C28_UtilizationFromTwoLatestSamples ==
    /\ [][UtilizationStep]_vars
    /\ [](\A j \in 1..Len(clients) : \A e \in Engines :
            clients[j][e].utilization # None => clients[j][e].last_sample # None)

\* After three updates client 1, removed by an earlier update and observed
\* again by the third, has no utilization and the sample of this update only,
\* next to client 2, which has a utilization from its two samples.
C28_Witness ==
    /\ pc = "polling"
    /\ current_tick = 3
    /\ 1 \in dropped
    /\ \E i, j \in 1..Len(clients) :
          /\ clients[i].id = 1
          /\ clients[i].render_engine.utilization = None
          /\ SampledAt(clients[i].render_engine, clock)
          /\ clients[j].id = 2
          /\ clients[j].render_engine.utilization = Some(Ratio(2, 2))
    /\ u8_result = Some([field |-> "render_utilization", result |-> Ok(100)])

\* C24: the percentage the Intel backend gives for gpu_utilization,
\* render_utilization and video_utilization is within 0..100, whatever the
\* number of tracked clients and their utilizations.
C24_IntelPercentageWithin100 ==
    (u8_result # None /\ Unwrap(u8_result).result.ok)
        => Unwrap(u8_result).result.val \in 0..100

====
